---- MODULE Spec2Model ----
(***************************************************************************)
(* Campus Q&A: the document ingestion coordinator (app/main.py), the lock  *)
(* and status sink (app/redis_coord.py), the raw document store            *)
(* (app/document_storage.py), the loader (app/rag.py) and the vector index *)
(* (app/vectorstore_pgvector.py), as one state machine.                    *)
(*                                                                         *)
(* Requests (upload, reindex, delete, search, rebuild) run on their own    *)
(* threads; ingestion jobs run on the workers of ingest_executor.  Every   *)
(* access to Redis, MySQL/OSS or PostgreSQL is one step; a database        *)
(* transaction is one step.                                                *)
(*                                                                         *)
(* Timing assumption of Spec: a live holder of the per-document lock       *)
(* leaves its scoped section before the lock's TTL (600 s) elapses, so the *)
(* key is only ever removed by release.                                    *)
(***************************************************************************)
EXTENDS Integers, Sequences, FiniteSets, TLC

\* ------------------------------------------------------------------ bounds
MaxUploads == 2       \* upload requests started in one behaviour
MaxBatch == 2         \* files of one upload request
MaxFiles == 2         \* files of all upload requests together
MaxReindex == 1       \* reindex requests
MaxDeletes == 1       \* delete requests
MaxSearches == 1      \* searches
IngestWorkers == 2    \* settings.ingest_workers
ChunkSize == 2        \* settings.chunk_size
PageSize == 2         \* rows of one INSERT statement issued by execute_values
MaxUploadBytes == 3   \* settings.max_upload_mb * 1024 * 1024
MaxHits == 3          \* rows a recall can return
MaxTopK == 3          \* the largest top_k a request carries
TopK == 2             \* settings.top_k
RerankTopN == 2       \* settings.rerank_top_n
MaxEntries == 2       \* entries of a rerank response
MaxScore == 2         \* scores are 0..MaxScore

\* ------------------------------------------------------------- constants
ChunkOverlap == 0             \* settings.chunk_overlap
ChunkOverlapRatioNum == 12    \* settings.chunk_overlap_ratio = 0.12
ChunkOverlapRatioDen == 100

\* A document name is Path(name).stem and Path(name).suffix.
NameATxt == [stem |-> "a", ext |-> ".txt"]
NameAMd == [stem |-> "a", ext |-> ".md"]
Names == {NameATxt, NameAMd}

ALLOWED_DOC_EXTS == {".txt", ".md", ".pdf", ".docx", ".xlsx"}

\* File contents: the bytes of a text file, one element per character.
TextBlank == <<" ">>
TextOne == <<"p", "q">>
TextTwo == <<"x", "y", "z">>
Contents == {TextBlank, TextOne, TextTwo}

\* What a client may send: also a name outside the allow-list, and a file over
\* the size limit.
NameExe == [stem |-> "a", ext |-> ".exe"]
TextBig == <<"b", "i", "g", "!">>
UploadFiles ==
  {[filename |-> n, content |-> c] : n \in Names, c \in Contents}
    \cup {[filename |-> NameExe, content |-> TextOne],
          [filename |-> NameATxt, content |-> TextBig]}

Max(a, b) == IF a >= b THEN a ELSE b
Min(a, b) == IF a <= b THEN a ELSE b

\* ------------------------------------------------------- loader (rag.py)
IsSpace(c) == c = " "

RECURSIVE LStrip(_)
LStrip(s) == IF s # <<>> /\ IsSpace(Head(s)) THEN LStrip(Tail(s)) ELSE s

RECURSIVE RStrip(_)
RStrip(s) ==
  IF s # <<>> /\ IsSpace(s[Len(s)]) THEN RStrip(SubSeq(s, 1, Len(s) - 1)) ELSE s

\* str.strip()
Strip(s) == RStrip(LStrip(s))

\* chunk_text: start is 0-based as in the source; text[start:end] is
\* SubSeq(text, start + 1, end).
RECURSIVE ChunkFrom(_, _, _, _)
ChunkFrom(text, chunk_size, overlap, start) ==
  IF start >= Len(text) THEN <<>>
  ELSE LET end == Min(start + chunk_size, Len(text))
           chunk == SubSeq(text, start + 1, end)
       IN IF end = Len(text) THEN <<chunk>>
          ELSE <<chunk>> \o ChunkFrom(text, chunk_size, overlap, end - overlap)

chunk_text(text, chunk_size, overlap) == ChunkFrom(text, chunk_size, overlap, 0)

\* The formats read through a library: a file of such a format starts with
\* the magic of its container and carries its text after it.
ContainerExts == {".pdf", ".docx", ".xlsx"}
Magic(ext) == IF ext = ".pdf" THEN "%PDF" ELSE "PK"

\* rag.py:288, 297, 300: pypdf.PdfReader, docx.Document and
\* openpyxl.load_workbook are called outside any try block and raise on bytes
\* that are not their container.
ExtractRaises(data, ext) ==
  ext \in ContainerExts /\ (data = <<>> \/ Head(data) # Magic(ext))

\* extract_text_from_bytes: data.decode("utf-8") for .txt and .md, the text
\* of the container for the library formats, "" for any other extension.  Where
\* ExtractRaises holds the call raises and has no value; the documents of Names
\* are all .txt or .md.
extract_text_from_bytes(data, ext) ==
  IF ext \in {".txt", ".md"} THEN data
  ELSE IF ext \in ContainerExts /\ ~ExtractRaises(data, ext) THEN Tail(data)
  ELSE <<>>

effective_overlap(chunk_size, overlap) ==
  IF overlap > 0 THEN overlap
  ELSE Max(1, (chunk_size * ChunkOverlapRatioNum) \div ChunkOverlapRatioDen)

\* The DocumentChunk list load_documents makes of one document.
LoadOne(doc) ==
  LET text == extract_text_from_bytes(doc.content, doc.name.ext)
      windows == chunk_text(text, ChunkSize, effective_overlap(ChunkSize, ChunkOverlap))
  IN IF doc.name.ext \notin ALLOWED_DOC_EXTS \/ Strip(text) = <<>> THEN <<>>
     ELSE [i \in 1..Len(windows) |->
             [id |-> <<doc.name.stem, i - 1>>, text |-> Strip(windows[i]),
              source |-> doc.name]]

RECURSIVE load_documents(_)
load_documents(docs) ==
  IF docs = <<>> THEN <<>> ELSE LoadOne(Head(docs)) \o load_documents(Tail(docs))

\* compute_hash_from_bytes: SHA-256, taken to be injective on the contents.
compute_hash_from_bytes(data) == data

\* --------------------------------------- vector index (vectorstore_pgvector)
\* A row of the table: chunk_id is the PRIMARY KEY.
RowOf(ch) == [chunk_id |-> ch.id, document_id |-> ch.source, content |-> ch.text]

\* INSERT ... ON CONFLICT (chunk_id) DO UPDATE of one row.
InsertOnConflict(table, row) ==
  {r \in table : r.chunk_id # row.chunk_id} \cup {row}

RECURSIVE InsertAll(_, _)
InsertAll(table, page) ==
  IF page = <<>> THEN table
  ELSE InsertAll(InsertOnConflict(table, Head(page)), Tail(page))

\* One INSERT statement proposing the same chunk_id twice is rejected by
\* PostgreSQL ("ON CONFLICT DO UPDATE command cannot affect row a second time").
HasDuplicateIds(page) ==
  \E i, j \in 1..Len(page) : i < j /\ page[i].chunk_id = page[j].chunk_id

\* execute_values: one INSERT statement per page of PageSize rows, in order.
\* The result is the table, or Raised when a statement fails.
Raised == {[chunk_id |-> <<"raised", 0>>, document_id |-> [stem |-> "raised", ext |-> ""],
            content |-> <<>>]}

RECURSIVE execute_values(_, _)
execute_values(table, rowseq) ==
  IF rowseq = <<>> THEN table
  ELSE LET n == Min(PageSize, Len(rowseq))
           page == SubSeq(rowseq, 1, n)
       IN IF HasDuplicateIds(page) THEN Raised
          ELSE execute_values(InsertAll(table, page), SubSeq(rowseq, n + 1, Len(rowseq)))

\* DELETE FROM table WHERE document_id = ANY(targets)
DeleteWhere(table, targets) == {r \in table : r.document_id \notin targets}

RowsOf(table, name) == {r \in table : r.document_id = name}

RECURSIVE ChunkRows(_)
ChunkRows(chunks) ==
  IF chunks = <<>> THEN <<>> ELSE <<RowOf(Head(chunks))>> \o ChunkRows(Tail(chunks))

\* chunk_map is the dict in insertion order: a sequence of [name, chunks].
RECURSIVE OrderedChunks(_)
OrderedChunks(chunk_map) ==
  IF chunk_map = <<>> THEN <<>>
  ELSE (IF Head(chunk_map).chunks = <<>> THEN <<>> ELSE Head(chunk_map).chunks)
       \o OrderedChunks(Tail(chunk_map))

UpsertTargets(chunk_map) ==
  {chunk_map[i].name : i \in {k \in 1..Len(chunk_map) : chunk_map[k].chunks # <<>>}}

\* The transaction of upsert_documents: DELETE the targets' rows, then INSERT.
UpsertRows(table, targets, rowseq) ==
  execute_values(DeleteWhere(table, targets), rowseq)

\* A variant that opens the transaction and deletes the targets' rows before it
\* asks for the embeddings, and commits what it has done when they fail.
upsert_documents_delete_first(ix, chunk_map, embed_ok) ==
  LET ordered == OrderedChunks(chunk_map)
      targets == UpsertTargets(chunk_map)
      after == UpsertRows(ix.rows, targets, ChunkRows(ordered))
  IN IF ordered = <<>> THEN [ok |-> TRUE, exists |-> ix.exists, rows |-> ix.rows]
     ELSE IF ~embed_ok
       THEN [ok |-> FALSE, exists |-> ix.exists, rows |-> DeleteWhere(ix.rows, targets)]
     ELSE IF after = Raised THEN [ok |-> FALSE, exists |-> TRUE, rows |-> ix.rows]
     ELSE [ok |-> TRUE, exists |-> TRUE, rows |-> after]

\* upsert_documents on the index state ix = [exists, rows]; embed_ok is the
\* outcome of the embedding call.  A failed transaction is rolled back.
upsert_documents(ix, chunk_map, embed_ok) ==
  LET ordered == OrderedChunks(chunk_map)
      targets == UpsertTargets(chunk_map)
      after == UpsertRows(ix.rows, targets, ChunkRows(ordered))
  IN IF ordered = <<>> THEN [ok |-> TRUE, exists |-> ix.exists, rows |-> ix.rows]
     ELSE IF ~embed_ok THEN [ok |-> FALSE, exists |-> ix.exists, rows |-> ix.rows]
     ELSE IF after = Raised THEN [ok |-> FALSE, exists |-> TRUE, rows |-> ix.rows]
     ELSE [ok |-> TRUE, exists |-> TRUE, rows |-> after]

\* A statement that names the table: psycopg2 raises errors.UndefinedTable
\* when the table has not been created.
UndefinedTable == "UndefinedTable"
EmbeddingError == "EmbeddingError"
Execute(ix) ==
  IF ix.exists THEN [error |-> "", rows |-> ix.rows]
  ELSE [error |-> UndefinedTable, rows |-> {}]

\* CREATE TABLE IF NOT EXISTS
_ensure_schema(ix) == [ix EXCEPT !.exists = TRUE]

\* A delete without the except clause.
delete_documents_uncaught(ix, doc_names) ==
  LET cur == Execute(ix)
  IN IF doc_names = {}
       THEN [error |-> "", removed |-> 0, exists |-> ix.exists, rows |-> ix.rows]
     ELSE IF cur.error # ""
       THEN [error |-> cur.error, removed |-> 0, exists |-> ix.exists, rows |-> ix.rows]
     ELSE [error |-> "",
           removed |-> Cardinality(cur.rows) - Cardinality(DeleteWhere(cur.rows, doc_names)),
           exists |-> TRUE, rows |-> DeleteWhere(cur.rows, doc_names)]

\* delete_documents: a missing table is caught and reported as 0 rows.
delete_documents(ix, doc_names) ==
  LET cur == Execute(ix)
  IN IF doc_names = {}
       THEN [error |-> "", removed |-> 0, exists |-> ix.exists, rows |-> ix.rows]
     ELSE IF cur.error = UndefinedTable
       THEN [error |-> "", removed |-> 0, exists |-> ix.exists, rows |-> ix.rows]
     ELSE [error |-> "",
           removed |-> Cardinality(cur.rows) - Cardinality(DeleteWhere(cur.rows, doc_names)),
           exists |-> TRUE, rows |-> DeleteWhere(cur.rows, doc_names)]

\* stats: SELECT COUNT(*), reported as (chunks, documents); a missing table is
\* caught and reported as (0, 0).
stats(ix) ==
  LET cur == Execute(ix)
  IN IF cur.error = UndefinedTable THEN [error |-> "", chunks |-> 0, docs |-> 0]
     ELSE [error |-> "", chunks |-> Cardinality(cur.rows), docs |-> Cardinality(cur.rows)]

\* The transaction of build: TRUNCATE, then INSERT.
BuildRows(table, rowseq) == execute_values({}, rowseq)

build(ix, chunks, embed_ok) ==
  LET after == BuildRows(ix.rows, ChunkRows(chunks))
  IN IF chunks = <<>> THEN [ok |-> TRUE, exists |-> ix.exists, rows |-> {}]
     ELSE IF ~embed_ok THEN [ok |-> FALSE, exists |-> ix.exists, rows |-> ix.rows]
     ELSE IF after = Raised THEN [ok |-> FALSE, exists |-> TRUE, rows |-> ix.rows]
     ELSE [ok |-> TRUE, exists |-> TRUE, rows |-> after]

\* search: the rows the SELECT reads (before ORDER BY ... LIMIT); the schema is
\* created first, so a missing table reads as empty.
search(ix, embed_ok) ==
  LET cur == Execute(_ensure_schema(ix))
  IN IF ~embed_ok
       THEN [ok |-> FALSE, error |-> EmbeddingError, exists |-> ix.exists, rows |-> {}]
     ELSE [ok |-> cur.error = "", error |-> cur.error,
           exists |-> _ensure_schema(ix).exists, rows |-> cur.rows]

\* ------------------------------------------------- retrieval (rag.py)
\* Python's s[:n] for n >= 0.
Take(s, n) == SubSeq(s, 1, Min(n, Len(s)))

\* What the recall can return: hits of distinct chunks, by descending score.
ChunkNames == <<"c1", "c2", "c3", "c4">>
Scores == 0..MaxScore
RecallLists ==
  UNION {{[i \in 1..n |-> [chunk |-> ChunkNames[i], score |-> sc[i]]] :
            sc \in {f \in [1..n -> Scores] : \A i \in 1..(n - 1) : f[i] >= f[i + 1]}} :
         n \in 0..MaxHits}

\* An entry of a rerank response: the index it names (NoIndex when it has no
\* usable index key) and its score (NoScore when it has no usable score key).
NoIndex == 0 - 9
NoScore == 0 - 1
EntryIndexes == {NoIndex, 0 - MaxHits - 1, 0 - 1} \cup (0..MaxHits)
Entries == {[index |-> i, score |-> sc] : i \in EntryIndexes, sc \in {NoScore, MaxScore}}
EntryLists == UNION {[1..n -> Entries] : n \in 0..MaxEntries}

\* What the remote call of a reranker does: it raises, or it answers with
\* entries (the rerank endpoints) or with one score per candidate (the
\* embedding endpoint of _APIReranker).
Raises == [raises |-> TRUE, entries |-> <<>>, scores |-> <<>>]
ResponsesFor(strategy) ==
  IF strategy = "none" THEN {[raises |-> FALSE, entries |-> <<>>, scores |-> <<>>]}
  ELSE IF strategy = "api"
    THEN {Raises} \cup {[raises |-> FALSE, entries |-> <<>>, scores |-> sc] :
                          sc \in [1..MaxHits -> {1, MaxScore}]}
  ELSE {Raises} \cup {[raises |-> FALSE, entries |-> e, scores |-> <<>>] : e \in EntryLists}

\* _resolve_score
ResolveScore(entry, default) == IF entry.score = NoScore THEN default ELSE entry.score

\* The second loop of the two endpoint rerankers: candidates whose position is
\* not in used, until top_k hits are collected.
RECURSIVE FillUnused(_, _, _, _, _)
FillUnused(scored, used, candidates, top_k, i) ==
  IF i > Len(candidates) \/ Len(scored) >= top_k THEN scored
  ELSE IF (i - 1) \in used THEN FillUnused(scored, used, candidates, top_k, i + 1)
  ELSE FillUnused(Append(scored, candidates[i]), used, candidates, top_k, i + 1)

\* QianfanReranker.rerank, lines 70-82: the loop over the entries.
RECURSIVE QianfanScored(_, _, _, _, _)
QianfanScored(scored, used, entries, candidates, top_k) ==
  IF entries = <<>> THEN [scored |-> scored, used |-> used]
  ELSE LET idx == Head(entries).index
       IN IF idx = NoIndex \/ ~(0 <= idx /\ idx < Len(candidates)) \/ idx \in used
            THEN QianfanScored(scored, used, Tail(entries), candidates, top_k)
          ELSE LET hit == [chunk |-> candidates[idx + 1].chunk,
                           score |-> ResolveScore(Head(entries), candidates[idx + 1].score)]
               IN IF Len(scored) + 1 >= top_k
                    THEN [scored |-> Append(scored, hit), used |-> used \cup {idx}]
                  ELSE QianfanScored(Append(scored, hit), used \cup {idx}, Tail(entries),
                                     candidates, top_k)

\* A reranker's result: [raised, hits].
RerankRaised == [raised |-> TRUE, hits |-> <<>>]
Reranked(hits) == [raised |-> FALSE, hits |-> hits]

QianfanRerank(hits, top_k, resp) ==
  LET candidates == Take(hits, Max(IF top_k # 0 THEN top_k ELSE TopK, RerankTopN))
      loop == QianfanScored(<<>>, {}, resp.entries, candidates, top_k)
  IN IF hits = <<>> THEN Reranked(<<>>)
     ELSE IF resp.raises THEN RerankRaised
     ELSE IF resp.entries = <<>> THEN Reranked(Take(candidates, top_k))
     ELSE IF Len(loop.scored) < Min(top_k, Len(candidates))
       THEN Reranked(FillUnused(loop.scored, loop.used, candidates, top_k, 1))
     ELSE Reranked(loop.scored)

\* OpenAICompatibleReranker.rerank, lines 214-224: candidates[idx] with a
\* negative idx counts from the end, and raises IndexError below -len.
RECURSIVE OpenAIScored(_, _, _, _, _)
OpenAIScored(scored, used, entries, candidates, top_k) ==
  IF entries = <<>> THEN [raised |-> FALSE, scored |-> scored, used |-> used]
  ELSE LET idx == Head(entries).index
           pos == IF idx >= 0 THEN idx + 1 ELSE Len(candidates) + idx + 1
       IN IF idx = NoIndex \/ idx >= Len(candidates) \/ idx \in used
            THEN OpenAIScored(scored, used, Tail(entries), candidates, top_k)
          ELSE IF pos < 1 THEN [raised |-> TRUE, scored |-> scored, used |-> used]
          ELSE LET hit == [chunk |-> candidates[pos].chunk,
                           score |-> ResolveScore(Head(entries), candidates[pos].score)]
               IN IF Len(scored) + 1 >= Min(top_k, Len(candidates))
                    THEN [raised |-> FALSE, scored |-> Append(scored, hit),
                          used |-> used \cup {idx}]
                  ELSE OpenAIScored(Append(scored, hit), used \cup {idx}, Tail(entries),
                                    candidates, top_k)

OpenAIRerank(hits, top_k, resp) ==
  LET candidates == Take(hits, Max(IF top_k # 0 THEN top_k ELSE TopK, RerankTopN))
      loop == OpenAIScored(<<>>, {}, resp.entries, candidates, top_k)
  IN IF hits = <<>> THEN Reranked(<<>>)
     ELSE IF resp.raises THEN RerankRaised
     ELSE IF resp.entries = <<>> THEN Reranked(Take(candidates, top_k))
     ELSE IF loop.raised THEN RerankRaised
     ELSE IF Len(loop.scored) < Min(top_k, Len(candidates))
       THEN Reranked(FillUnused(loop.scored, loop.used, candidates, top_k, 1))
     ELSE Reranked(loop.scored)

\* sorted(zip(candidates, scores), key=score, reverse=True): stable, so equal
\* scores keep the order of the candidates.
RECURSIVE SortedByScore(_, _, _)
SortedByScore(candidates, scores, sc) ==
  IF sc < 0 THEN <<>>
  ELSE LET at == SelectSeq([i \in 1..Len(candidates) |-> i], LAMBDA i : scores[i] = sc)
       IN [k \in 1..Len(at) |-> [chunk |-> candidates[at[k]].chunk, score |-> sc]]
          \o SortedByScore(candidates, scores, sc - 1)

\* _APIReranker.rerank
APIRerank(hits, top_k, resp) ==
  LET candidates == IF top_k # 0 THEN Take(hits, top_k * 2) ELSE hits
  IN IF hits = <<>> THEN Reranked(<<>>)
     ELSE IF resp.raises THEN RerankRaised
     ELSE Reranked(Take(SortedByScore(candidates, resp.scores, MaxScore), top_k))

rerank(strategy, hits, top_k, resp) ==
  IF strategy = "qianfan" THEN QianfanRerank(hits, top_k, resp)
  ELSE IF strategy = "openai" THEN OpenAIRerank(hits, top_k, resp)
  ELSE APIRerank(hits, top_k, resp)

\* A variant of the fallback that forgets to truncate.
retrieve_untruncated(strategy, recall, top_k, resp) ==
  LET k == IF top_k # 0 THEN top_k ELSE TopK
      hits == Take(recall, Max(k, IF strategy # "none" THEN RerankTopN ELSE k))
      reranked == rerank(strategy, hits, k, resp)
  IN IF strategy = "none" THEN [rerank_raised |-> FALSE, hits |-> hits, result |-> hits]
     ELSE IF reranked.raised THEN [rerank_raised |-> TRUE, hits |-> hits, result |-> hits]
     ELSE [rerank_raised |-> FALSE, hits |-> hits, result |-> reranked.hits]

\* RAGPipeline.retrieve: recall is what the index holds for the query, in the
\* order of the SELECT; the search is the LIMIT on it.  top_k = 0 stands for a
\* request without top_k.
retrieve(strategy, recall, top_k, resp) ==
  LET k == IF top_k # 0 THEN top_k ELSE TopK
      hits == Take(recall, Max(k, IF strategy # "none" THEN RerankTopN ELSE k))
      reranked == rerank(strategy, hits, k, resp)
  IN IF strategy = "none" THEN [rerank_raised |-> FALSE, hits |-> hits, result |-> hits]
     ELSE IF reranked.raised
       THEN [rerank_raised |-> TRUE, hits |-> hits, result |-> Take(hits, k)]
     ELSE [rerank_raised |-> FALSE, hits |-> hits, result |-> reranked.hits]

\* ------------------------------------------------------------------ state
VARIABLES
  enabled,        \* redis_coord.enabled
  lock,           \* Redis keys lock:doc-ingest:<name>: the holder's token, or 0
  doc_status,     \* Redis hashes doc-status:<name>
  history,        \* the ingest:history events, by the job_id they carry
  storage,        \* doc_storage: metadata row and object of each name
  index,          \* the pgvector table: [exists, rows]
  queue,          \* tasks submitted to ingest_executor, not yet started
  worker,         \* the tasks running on ingest_executor's threads
  vectorize_lock, \* _vectorize_lock: the worker holding it, or 0
  upload,         \* the upload_docs requests
  deleter,        \* the delete_doc request
  budget,         \* what the clients may still send: requests and files, by kind
  call            \* a call made on one component alone: its inputs, then its outcome

vars == <<enabled, lock, doc_status, history, storage, index, queue, worker,
          vectorize_lock, upload, deleter, budget, call>>

Workers == 1..IngestWorkers
Uploads == 1..MaxUploads

NoDoc == [exists |-> FALSE, content |-> <<>>, vector_refs |-> <<>>]

StatusFields == {"status", "job_id", "error", "note", "chunk_count"}
NoStatus == [k \in StatusFields |-> IF k \in {"job_id", "chunk_count"} THEN 0 ELSE ""]

\* set_status: HSET merges the given fields into the hash; nothing when disabled.
set_status(st, doc_name, status, extra) ==
  IF ~enabled THEN st
  ELSE [st EXCEPT ![doc_name] =
          [k \in StatusFields |->
             IF k = "status" THEN status
             ELSE IF k \in DOMAIN extra THEN extra[k] ELSE @[k]]]

\* _record_ingest_event / record_event: LPUSH of the payload; nothing when disabled.
Event(doc_name, status, error, note, chunk_count) ==
  [doc |-> doc_name, status |-> status, error |-> error, note |-> note,
   chunk_count |-> chunk_count]

record_event(h, job_id, ev) ==
  IF ~enabled THEN h ELSE [h EXCEPT ![job_id] = Append(@, ev)]

\* The token of a lock attempt, f"{time.time()}".  Under Spec a key is deleted
\* only by its holder's release, so the value is never compared with another
\* request's; each request gets its own.
Token(r) == r

\* A variant without nx=True: the key is overwritten whoever holds it.
SetAlways(lk, key, token) == [ok |-> TRUE, lk |-> [lk EXCEPT ![key] = token]]

\* client.set(key, token, nx=True, ex=ttl): set only when the key is absent.
SetNx(lk, key, token) ==
  IF lk[key] = 0 THEN [ok |-> TRUE, lk |-> [lk EXCEPT ![key] = token]]
  ELSE [ok |-> FALSE, lk |-> lk]

\* RedisLockHandle.release: delete the key only if it still holds the token.
release(lk, key, token) == IF lk[key] = token THEN [lk EXCEPT ![key] = 0] ELSE lk

\* doc_storage.save: the object and the metadata row, vector_refs reset.
save(sto, name, data) ==
  [sto EXCEPT ![name] = [exists |-> TRUE, content |-> data, vector_refs |-> <<>>]]

\* doc_storage.update_vector_refs: UPDATE ... WHERE name, no row no change.
update_vector_refs(sto, name, chunk_ids) ==
  IF sto[name].exists THEN [sto EXCEPT ![name].vector_refs = chunk_ids] ELSE sto

IdleUpload ==
  [pc |-> "idle", nfiles |-> 0, files |-> <<>>, existing_hashes |-> {},
   batch_hashes |-> {},
   filename |-> NameATxt, content |-> <<>>, job_id |-> 0, token |-> 0,
   tried |-> FALSE, acquired |-> FALSE, successes |-> <<>>, failures |-> {}]

\* What the index and the document store hold for the documents of a batch.
BatchState(ix, sto, docs) ==
  [rows |-> {r \in ix.rows : \E i \in DOMAIN docs : r.document_id = docs[i].name},
   refs |-> [i \in DOMAIN docs |-> sto[docs[i].name].vector_refs]]

NoBatchState == [rows |-> {}, refs |-> <<>>]

\* before: what BatchState was when the task entered its with block, kept
\* while the task is inside the block.
IdleWorker ==
  [pc |-> "idle", entries |-> <<>>, requested_docs |-> <<>>, before |-> NoBatchState]

NoCall == [op |-> "none", raised |-> FALSE, embed_ok |-> TRUE]

InitCalling(b, c) ==
  /\ enabled \in BOOLEAN
  /\ lock = [n \in Names |-> 0]
  /\ doc_status = [n \in Names |-> NoStatus]
  /\ history = <<>>
  /\ storage = [n \in Names |-> NoDoc]
  /\ index = [exists |-> FALSE, rows |-> {}]
  /\ queue = <<>>
  /\ worker = [w \in Workers |-> IdleWorker]
  /\ vectorize_lock = 0
  /\ upload = [r \in Uploads |-> IdleUpload]
  /\ deleter = [pc |-> "idle", name |-> NameATxt]
  /\ budget = b
  /\ call = c

InitWith(b) == InitCalling(b, NoCall)

\* The budget of a specification that exercises one component alone.
NoBudget == [uploads |-> 0, files |-> 0, reindex |-> 0, delete |-> 0, search |-> 0]

\* ------------------------------------------------------------ upload_docs
NewJobId == Len(history) + 1

\* The end of one iteration of the loop over the uploaded files.
NextFile(u) ==
  [u EXCEPT !.nfiles = @ - 1,
            !.pc = IF u.nfiles > 1 THEN "file" ELSE "schedule",
            !.tried = FALSE, !.acquired = FALSE, !.token = 0]

\* A rejection that lets the file go on to the lock.
RejectAndGoOn(u, filename, reason) ==
  [u EXCEPT !.failures = @ \cup {[filename |-> filename, reason |-> reason]},
            !.pc = "lock", !.filename = filename]

Reject(u, filename, reason) ==
  NextFile([u EXCEPT !.failures = @ \cup {[filename |-> filename, reason |-> reason]}])

\* main.py:363-373: the request starts, reads the stored documents' hashes.
UploadStart(r) ==
  /\ upload[r].pc = "idle"
  /\ \A q \in 1..(r - 1) : upload[q].pc # "idle"
  /\ budget.uploads > 0
  /\ \E n \in 1..Min(MaxBatch, budget.files) :
       /\ upload' = [upload EXCEPT ![r] =
            [IdleUpload EXCEPT !.pc = "file", !.nfiles = n,
               !.existing_hashes =
                  {compute_hash_from_bytes(storage[d].content) :
                     d \in {x \in Names : storage[x].exists}}]]
       /\ budget' = [budget EXCEPT !.files = @ - n, !.uploads = @ - 1]
  /\ UNCHANGED <<enabled, lock, doc_status, history, storage, index, queue, worker,
                 vectorize_lock, deleter, call>>

\* main.py:376-411: validation of the next file, then the pending report.
\* files holds the files of the request the loop has taken so far.
UploadFile(r) ==
  /\ upload[r].pc = "file"
  /\ \E f \in UploadFiles :
       LET u == [upload[r] EXCEPT !.files = Append(@, f)]
           file_hash == compute_hash_from_bytes(f.content)
       IN IF f.filename.ext \notin ALLOWED_DOC_EXTS
            THEN /\ upload' = [upload EXCEPT ![r] = Reject(u, f.filename, "ext")]
                 /\ UNCHANGED <<doc_status, history>>
          ELSE IF MaxUploadBytes > 0 /\ Len(f.content) > MaxUploadBytes
            THEN /\ upload' = [upload EXCEPT ![r] = Reject(u, f.filename, "size")]
                 /\ UNCHANGED <<doc_status, history>>
          ELSE IF file_hash \in u.batch_hashes
            THEN /\ upload' = [upload EXCEPT ![r] = Reject(u, f.filename, "batch_duplicate")]
                 /\ UNCHANGED <<doc_status, history>>
          ELSE IF file_hash \in u.existing_hashes
            THEN /\ upload' = [upload EXCEPT ![r] = Reject(u, f.filename, "duplicate")]
                 /\ UNCHANGED <<doc_status, history>>
          ELSE /\ upload' = [upload EXCEPT ![r] =
                    [u EXCEPT !.pc = "lock", !.filename = f.filename,
                              !.content = f.content, !.job_id = NewJobId,
                              !.token = Token(r),
                              !.batch_hashes = @ \cup {file_hash}]]
               /\ doc_status' = set_status(doc_status, f.filename, "pending",
                                           [job_id |-> NewJobId])
               /\ history' = record_event(Append(history, <<>>), NewJobId,
                                          Event(f.filename, "pending", "", "", 0))
  /\ UNCHANGED <<enabled, lock, storage, index, queue, worker, vectorize_lock,
                 deleter, budget, call>>

\* redis_coord.py:85-96: coordination disabled yields no handle at once; else
\* SET key token NX EX ttl, and a failed attempt sleeps and tries again.
UploadLock(r) ==
  /\ upload[r].pc = "lock"
  /\ LET u == upload[r]
         got == SetNx(lock, u.filename, u.token)
     IN IF ~enabled
          THEN /\ upload' = [upload EXCEPT ![r].pc = "uploading"]
               /\ UNCHANGED lock
        ELSE IF got.ok
          THEN /\ lock' = got.lk
               /\ upload' = [upload EXCEPT ![r].pc = "uploading", ![r].acquired = TRUE]
        ELSE /\ ~u.tried
             /\ upload' = [upload EXCEPT ![r].tried = TRUE]
             /\ UNCHANGED lock
  /\ UNCHANGED <<enabled, doc_status, history, storage, index, queue, worker,
                 vectorize_lock, deleter, budget, call>>

\* A variant that reports busy and goes on into the section all the same.
UploadBusyGoesOn(r) ==
  /\ upload[r].pc = "lock"
  /\ enabled
  /\ upload[r].tried
  /\ LET u == upload[r]
     IN /\ doc_status' = set_status(doc_status, u.filename, "busy", [job_id |-> u.job_id])
        /\ history' = record_event(history, u.job_id,
                                   Event(u.filename, "busy", "", "locked", 0))
        /\ upload' = [upload EXCEPT ![r].pc = "uploading"]
  /\ UNCHANGED <<enabled, lock, storage, index, queue, worker, vectorize_lock,
                 deleter, budget, call>>

\* redis_coord.py:92,101 and main.py:415-419: the deadline passes while the key
\* is held by another; no handle, the file is reported busy.
UploadBusy(r) ==
  /\ upload[r].pc = "lock"
  /\ enabled
  /\ upload[r].tried
  /\ LET u == upload[r]
     IN /\ doc_status' = set_status(doc_status, u.filename, "busy", [job_id |-> u.job_id])
        /\ history' = record_event(history, u.job_id,
                                   Event(u.filename, "busy", "", "locked", 0))
        /\ upload' = [upload EXCEPT ![r] = Reject(u, u.filename, "busy")]
  /\ UNCHANGED <<enabled, lock, storage, index, queue, worker, vectorize_lock,
                 deleter, budget, call>>

\* main.py:421-422
UploadUploading(r) ==
  /\ upload[r].pc = "uploading"
  /\ LET u == upload[r]
     IN /\ doc_status' = set_status(doc_status, u.filename, "uploading", <<>>)
        /\ history' = record_event(history, u.job_id,
                                   Event(u.filename, "uploading", "", "", 0))
        /\ upload' = [upload EXCEPT ![r].pc = "save"]
  /\ UNCHANGED <<enabled, lock, storage, index, queue, worker, vectorize_lock,
                 deleter, budget, call>>

\* A variant of the scoped section without its finally clause.
UnlockNever(u) == lock

\* The lock's scoped section ends: redis_coord.py:104-106.
Unlock(u) == IF u.acquired THEN release(lock, u.filename, u.token) ELSE lock

\* main.py:423 and, when save raises, 433-437 and the end of the with block.
UploadSave(r) ==
  /\ upload[r].pc = "save"
  /\ LET u == upload[r]
     IN \/ /\ storage' = save(storage, u.filename, u.content)
           /\ upload' = [upload EXCEPT ![r].pc = "vectorizing"]
           /\ UNCHANGED <<lock, doc_status, history>>
        \/ /\ doc_status' = set_status(doc_status, u.filename, "failed",
                                       [job_id |-> u.job_id, error |-> "save"])
           /\ history' = record_event(history, u.job_id,
                                      Event(u.filename, "failed", "save", "", 0))
           /\ lock' = Unlock(u)
           /\ upload' = [upload EXCEPT ![r] = Reject(u, u.filename, "failed")]
           /\ UNCHANGED storage
  /\ UNCHANGED <<enabled, index, queue, worker, vectorize_lock, deleter, budget, call>>

\* main.py:425-428 and the end of the with block.
UploadVectorizing(r) ==
  /\ upload[r].pc = "vectorizing"
  /\ LET u == upload[r]
     IN /\ doc_status' = set_status(doc_status, u.filename, "vectorizing",
                                    [job_id |-> u.job_id])
        /\ history' = record_event(history, u.job_id,
                                   Event(u.filename, "vectorizing", "", "", 0))
        /\ lock' = Unlock(u)
        /\ upload' = [upload EXCEPT ![r] =
             NextFile([u EXCEPT
               !.successes = Append(@, [filename |-> u.filename, job_id |-> u.job_id]),
               !.existing_hashes = @ \cup {compute_hash_from_bytes(u.content)}])]
  /\ UNCHANGED <<enabled, storage, index, queue, worker, vectorize_lock, deleter, budget, call>>

\* main.py:445-454 and _schedule_vectorize: the accepted files become one task.
UploadSchedule(r) ==
  /\ upload[r].pc = "schedule"
  /\ queue' = IF upload[r].successes = <<>> THEN queue
              ELSE Append(queue, upload[r].successes)
  /\ upload' = [upload EXCEPT ![r].pc = "done"]
  /\ UNCHANGED <<enabled, lock, doc_status, history, storage, index, worker,
                 vectorize_lock, deleter, budget, call>>

\* --------------------------------------------------- _run_vectorize_job
\* job_map: a dict comprehension, so the last entry of a name gives its job_id.
RECURSIVE job_map(_, _)
job_map(entries, doc_name) ==
  IF entries = <<>> THEN 0
  ELSE IF entries[Len(entries)].filename = doc_name THEN entries[Len(entries)].job_id
  ELSE job_map(SubSeq(entries, 1, Len(entries) - 1), doc_name)

\* _fail and _complete, on the pair of status hashes and history.
Sink == [st |-> doc_status, h |-> history]

_fail(sink, entries, doc_name, reason) ==
  LET job_id == job_map(entries, doc_name)
  IN [st |-> set_status(sink.st, doc_name, "failed",
                        [job_id |-> job_id, error |-> reason]),
      h |-> record_event(sink.h, job_id, Event(doc_name, "failed", reason, "", 0))]

_complete(sink, entries, doc_name, chunk_count, note) ==
  LET job_id == job_map(entries, doc_name)
      payload == IF note = "" THEN [chunk_count |-> chunk_count, job_id |-> job_id]
                 ELSE [chunk_count |-> chunk_count, job_id |-> job_id, note |-> note]
  IN [st |-> set_status(sink.st, doc_name, "completed", payload),
      h |-> record_event(sink.h, job_id,
                         Event(doc_name, "completed", "", note, chunk_count))]

\* main.py:181-192: the loop over filenames; a name that is not stored is failed
\* each time it occurs.
RECURSIVE LoadFails(_, _, _, _)
LoadFails(sink, entries, i, sto) ==
  IF i > Len(entries) THEN sink
  ELSE LET name == entries[i].filename
       IN LoadFails(IF sto[name].exists THEN sink
                    ELSE _fail(sink, entries, name, "not_found"),
                    entries, i + 1, sto)

\* requested_docs: a dict, one document per stored name, in order of first
\* occurrence.
RECURSIVE RequestedDocs(_, _, _)
RequestedDocs(entries, i, sto) ==
  IF i > Len(entries) THEN <<>>
  ELSE LET name == entries[i].filename
           first == \A k \in 1..(i - 1) : entries[k].filename # name
       IN (IF sto[name].exists /\ first
             THEN <<[name |-> name, content |-> sto[name].content]>> ELSE <<>>)
          \o RequestedDocs(entries, i + 1, sto)

\* main.py:197-209: doc_chunk_map, the loader's chunks grouped by source.
doc_chunk_map(requested_docs) ==
  LET chunks == load_documents(requested_docs)
  IN [i \in 1..Len(requested_docs) |->
        [name |-> requested_docs[i].name,
         chunks |-> SelectSeq(chunks, LAMBDA c : c.source = requested_docs[i].name)]]

\* main.py:210
upsert_payload(dcm) == SelectSeq(dcm, LAMBDA e : e.chunks # <<>>)

\* A variant that never finds a document without chunks.
no_empty_docs(dcm) == {}

\* main.py:213
empty_docs(dcm) == {dcm[i].name : i \in {k \in 1..Len(dcm) : dcm[k].chunks = <<>>}}

ChunkIds(chunks) == [i \in 1..Len(chunks) |-> chunks[i].id]

\* A task starts on a free thread of the pool and loads its documents.
JobLoad(w) ==
  /\ worker[w].pc = "idle"
  /\ \A v \in 1..(w - 1) : worker[v].pc # "idle"
  /\ queue # <<>>
  /\ LET entries == Head(queue)
         docs == RequestedDocs(entries, 1, storage)
         sink == LoadFails(Sink, entries, 1, storage)
     IN /\ doc_status' = sink.st
        /\ history' = sink.h
        /\ worker' = [worker EXCEPT ![w] =
             IF docs = <<>> THEN IdleWorker
             ELSE [pc |-> "upsert", entries |-> entries, requested_docs |-> docs,
                   before |-> NoBatchState]]
  /\ queue' = Tail(queue)
  /\ UNCHANGED <<enabled, lock, storage, index, vectorize_lock, upload, deleter, budget, call>>

\* main.py:199-212: _vectorize_lock is taken, the chunks are made and upserted.
\* When the upsert raises the lock is released by the with block.
JobUpsert(w) ==
  /\ worker[w].pc = "upsert"
  /\ vectorize_lock = 0
  /\ \E embed_ok \in BOOLEAN :
       LET dcm == doc_chunk_map(worker[w].requested_docs)
           res == upsert_documents(index, upsert_payload(dcm), embed_ok)
       IN /\ index' = [exists |-> res.exists, rows |-> res.rows]
          /\ IF res.ok
               THEN /\ vectorize_lock' = w
                    /\ worker' = [worker EXCEPT
                         ![w].pc = IF empty_docs(dcm) = {} THEN "refs" ELSE "delete_empty",
                         ![w].before = BatchState(index, storage, worker[w].requested_docs)]
               ELSE /\ vectorize_lock' = 0
                    /\ worker' = [worker EXCEPT ![w].pc = "failed"]
  /\ UNCHANGED <<enabled, lock, doc_status, history, storage, queue, upload,
                 deleter, budget, call>>

\* A variant whose lock stays taken when delete_documents raises.
JobDeleteEmptyHolds(w) ==
  /\ worker[w].pc = "delete_empty"
  /\ LET dcm == doc_chunk_map(worker[w].requested_docs)
         res == delete_documents(index, empty_docs(dcm))
     IN \/ /\ index' = [exists |-> res.exists, rows |-> res.rows]
           /\ worker' = [worker EXCEPT ![w].pc = "refs"]
        \/ /\ worker' = [worker EXCEPT ![w].pc = "failed", ![w].before = NoBatchState]
           /\ UNCHANGED index
  /\ UNCHANGED <<enabled, lock, doc_status, history, storage, queue, upload,
                 deleter, budget, call, vectorize_lock>>

\* main.py:213-215
JobDeleteEmpty(w) ==
  /\ worker[w].pc = "delete_empty"
  /\ LET dcm == doc_chunk_map(worker[w].requested_docs)
         res == delete_documents(index, empty_docs(dcm))
     IN \/ /\ index' = [exists |-> res.exists, rows |-> res.rows]
           /\ worker' = [worker EXCEPT ![w].pc = "refs"]
           /\ UNCHANGED vectorize_lock
        \/ /\ worker' = [worker EXCEPT ![w].pc = "failed", ![w].before = NoBatchState]
           /\ vectorize_lock' = 0
           /\ UNCHANGED index
  /\ UNCHANGED <<enabled, lock, doc_status, history, storage, queue, upload,
                 deleter, budget, call>>

\* main.py:216-217: one UPDATE per document; the k-th may raise.
RECURSIVE UpdateRefs(_, _, _)
UpdateRefs(sto, dcm, k) ==
  IF k = 0 THEN sto
  ELSE update_vector_refs(UpdateRefs(sto, dcm, k - 1), dcm[k].name,
                          ChunkIds(dcm[k].chunks))

JobUpdateRefs(w) ==
  /\ worker[w].pc = "refs"
  /\ LET dcm == doc_chunk_map(worker[w].requested_docs)
     IN \E k \in 0..Len(dcm) :
          /\ storage' = UpdateRefs(storage, dcm, k)
          /\ worker' = [worker EXCEPT ![w].pc = IF k = Len(dcm) THEN "report" ELSE "failed",
                                       ![w].before = NoBatchState]
  /\ vectorize_lock' = 0
  /\ UNCHANGED <<enabled, lock, doc_status, history, index, queue, upload, deleter, budget, call>>

\* A variant of the except branch that fails the first document only.
FailFirstOnly(sink, entries, docs, i) ==
  IF docs = <<>> THEN sink ELSE _fail(sink, entries, docs[1].name, "index_failed")

\* main.py:218-222
RECURSIVE FailEach(_, _, _, _)
FailEach(sink, entries, docs, i) ==
  IF i > Len(docs) THEN sink
  ELSE FailEach(_fail(sink, entries, docs[i].name, "index_failed"), entries, docs, i + 1)

JobFailed(w) ==
  /\ worker[w].pc = "failed"
  /\ LET sink == FailEach(Sink, worker[w].entries, worker[w].requested_docs, 1)
     IN /\ doc_status' = sink.st
        /\ history' = sink.h
  /\ worker' = [worker EXCEPT ![w] = IdleWorker]
  /\ UNCHANGED <<enabled, lock, storage, index, queue, vectorize_lock, upload,
                 deleter, budget, call>>

\* main.py:224-230
RECURSIVE CompleteEach(_, _, _, _)
CompleteEach(sink, entries, dcm, i) ==
  IF i > Len(dcm) THEN sink
  ELSE LET chunk_count == Len(dcm[i].chunks)
       IN CompleteEach(_complete(sink, entries, dcm[i].name, chunk_count,
                                 IF chunk_count > 0 THEN "" ELSE "no_chunks"),
                       entries, dcm, i + 1)

JobReport(w) ==
  /\ worker[w].pc = "report"
  /\ LET sink == CompleteEach(Sink, worker[w].entries,
                              doc_chunk_map(worker[w].requested_docs), 1)
     IN /\ doc_status' = sink.st
        /\ history' = sink.h
  /\ worker' = [worker EXCEPT ![w] = IdleWorker]
  /\ UNCHANGED <<enabled, lock, storage, index, queue, vectorize_lock, upload,
                 deleter, budget, call>>

\* ------------------------------------------- reindex_doc, delete_doc, search
\* main.py:502-512; a name that is not stored is answered 404.
Reindex(name) ==
  /\ budget.reindex > 0
  /\ storage[name].exists
  /\ budget' = [budget EXCEPT !.reindex = @ - 1]
  /\ doc_status' = set_status(doc_status, name, "vectorizing",
                              [job_id |-> NewJobId, note |-> "manual"])
  /\ history' = record_event(Append(history, <<>>), NewJobId,
                             Event(name, "vectorizing", "", "manual_reindex", 0))
  /\ queue' = Append(queue, <<[filename |-> name, job_id |-> NewJobId]>>)
  /\ UNCHANGED <<enabled, lock, storage, index, worker, vectorize_lock, upload,
                 deleter, call>>

\* main.py:477-483: doc_storage.delete; a name that is not stored is answered 404.
DeleteStorage(name) ==
  /\ deleter.pc = "idle"
  /\ budget.delete > 0
  /\ budget' = [budget EXCEPT !.delete = @ - 1]
  /\ IF storage[name].exists
       THEN /\ storage' = [storage EXCEPT ![name] = NoDoc]
            /\ deleter' = [pc |-> "vectors", name |-> name]
       ELSE UNCHANGED <<storage, deleter>>
  /\ UNCHANGED <<enabled, lock, doc_status, history, index, queue, worker,
                 vectorize_lock, upload, call>>

\* main.py:486-490: the vectors are removed, or the failure is logged.
DeleteVectors ==
  /\ deleter.pc = "vectors"
  /\ LET res == delete_documents(index, {deleter.name})
     IN \/ index' = [exists |-> res.exists, rows |-> res.rows]
        \/ UNCHANGED index
  /\ deleter' = [pc |-> "idle", name |-> NameATxt]
  /\ UNCHANGED <<enabled, lock, doc_status, history, storage, queue, worker,
                 vectorize_lock, upload, budget, call>>

\* vectorstore_pgvector.py:174-188
Search ==
  /\ budget.search > 0
  /\ budget' = [budget EXCEPT !.search = @ - 1]
  /\ \E embed_ok \in BOOLEAN :
       LET res == search(index, embed_ok)
       IN index' = [exists |-> res.exists, rows |-> index.rows]
  /\ UNCHANGED <<enabled, lock, doc_status, history, storage, queue, worker,
                 vectorize_lock, upload, deleter, call>>

UploadStep ==
  \/ \E r \in Uploads : UploadStart(r)
  \/ \E r \in Uploads : UploadFile(r)
  \/ \E r \in Uploads : UploadLock(r)
  \/ \E r \in Uploads : UploadBusy(r)
  \/ \E r \in Uploads : UploadUploading(r)
  \/ \E r \in Uploads : UploadSave(r)
  \/ \E r \in Uploads : UploadVectorizing(r)
  \/ \E r \in Uploads : UploadSchedule(r)

JobStep ==
  \/ \E w \in Workers : JobLoad(w)
  \/ \E w \in Workers : JobUpsert(w)
  \/ \E w \in Workers : JobDeleteEmpty(w)
  \/ \E w \in Workers : JobUpdateRefs(w)
  \/ \E w \in Workers : JobFailed(w)
  \/ \E w \in Workers : JobReport(w)

\* Two upload requests of MaxFiles files in all, an admin who deletes, and the
\* ingestion workers.
Init ==
  InitWith([uploads |-> MaxUploads, files |-> MaxFiles, reindex |-> 0,
            delete |-> MaxDeletes, search |-> 0])

Next ==
  \/ UploadStep
  \/ JobStep
  \/ \E n \in Names : DeleteStorage(n)
  \/ DeleteVectors

Spec == Init /\ [][Next]_vars

\* The same uploads and workers, with searches instead of deletes.
InitSearch ==
  InitWith([uploads |-> MaxUploads, files |-> MaxFiles, reindex |-> 0, delete |-> 0,
            search |-> MaxSearches])

NextSearch ==
  \/ UploadStep
  \/ JobStep
  \/ Search

SpecSearch == InitSearch /\ [][NextSearch]_vars

\* One upload request of one file, then reindex and delete requests.
InitReindex ==
  InitWith([uploads |-> 1, files |-> 1, reindex |-> MaxReindex, delete |-> MaxDeletes,
            search |-> 0])

NextReindex ==
  \/ \E r \in Uploads : UploadStart(r)
  \/ \E r \in Uploads : UploadFile(r)
  \/ \E r \in Uploads : UploadLock(r)
  \/ \E r \in Uploads : UploadUploading(r)
  \/ \E r \in Uploads : UploadSave(r)
  \/ \E r \in Uploads : UploadVectorizing(r)
  \/ \E r \in Uploads : UploadSchedule(r)
  \/ JobStep
  \/ \E n \in Names : Reindex(n)
  \/ \E n \in Names : DeleteStorage(n)
  \/ DeleteVectors

SpecReindex == InitReindex /\ [][NextReindex]_vars

\* Uploads and workers alone, where a request that is acquiring the lock goes
\* on running: its loop of attempts is a thread of the request handler, which
\* the interpreter schedules again and again until the deadline has passed.
InitWait ==
  InitWith([uploads |-> MaxUploads, files |-> MaxFiles, reindex |-> 0, delete |-> 0,
            search |-> 0])

NextWait ==
  \/ UploadStep
  \/ JobStep

SpecWait ==
  /\ InitWait
  /\ [][NextWait]_vars
  /\ \A r \in Uploads : WF_vars(UploadLock(r) \/ UploadBusy(r))

\* The uploads and the jobs again, under enabled coordination.
InitSection == InitWait /\ enabled

\* Each pool thread goes on with the job it holds: a thread blocked on
\* _vectorize_lock runs once the lock is free, and a thread inside the section
\* runs to the end of its with block.
SpecSection ==
  /\ InitSection
  /\ [][NextWait]_vars
  /\ \A w \in Workers :
       WF_vars(JobUpsert(w) \/ JobDeleteEmpty(w) \/ JobUpdateRefs(w))

\* ---------------------------------------------- a failing document store
\* main.py:181-186 catches FileNotFoundError only.  get_document also raises
\* what its database connection or its object fetch raises
\* (document_storage.py:116-123, 155-156); such an error at the k-th name
\* leaves _run_vectorize_job at once, after the names before it were handled,
\* and the pool thread is free again.
RECURSIVE LoadFailsBefore(_, _, _, _, _)
LoadFailsBefore(sink, entries, i, k, sto) ==
  IF i >= k THEN sink
  ELSE LET name == entries[i].filename
       IN LoadFailsBefore(IF sto[name].exists THEN sink
                          ELSE _fail(sink, entries, name, "not_found"),
                          entries, i + 1, k, sto)

JobLoadRaises(w, k) ==
  /\ worker[w].pc = "idle"
  /\ \A v \in 1..(w - 1) : worker[v].pc # "idle"
  /\ queue # <<>>
  /\ k \in 1..Len(Head(queue))
  /\ LET entries == Head(queue)
         sink == LoadFailsBefore(Sink, entries, 1, k, storage)
     IN /\ doc_status' = sink.st
        /\ history' = sink.h
        /\ call' = [op |-> "job_raised", raised |-> TRUE, embed_ok |-> TRUE,
                    entries |-> entries, at |-> k]
  /\ queue' = Tail(queue)
  /\ UNCHANGED <<enabled, lock, storage, index, worker, vectorize_lock, upload,
                 deleter, budget>>

InitPool ==
  InitWith([uploads |-> MaxUploads, files |-> MaxFiles, reindex |-> 0, delete |-> 0,
            search |-> 0])

NextPool ==
  \/ UploadStep
  \/ JobStep
  \/ \E w \in Workers, k \in 1..MaxBatch : JobLoadRaises(w, k)

SpecPool == InitPool /\ [][NextPool]_vars

\* ------------------------------------------- a batch with library formats
\* _run_vectorize_job from its with block on (main.py:197-230), for a batch of
\* stored documents of which some are .pdf or .xlsx files, well-formed or not.
\* call holds the statuses, the events and the vector refs of the batch.
NameBPdf == [stem |-> "b", ext |-> ".pdf"]
NameCXlsx == [stem |-> "c", ext |-> ".xlsx"]
NameDBin == [stem |-> "d", ext |-> ".bin"]
PdfGood == <<"%PDF", "p", "q">>
XlsxGood == <<"PK", "x">>
Garbage == <<"g", "h">>
\* a text with a run of whitespace longer than a window
TextGap == <<"p", " ", " ", " ", " ", "q">>

BatchNames == {NameATxt, NameBPdf, NameCXlsx}
BatchDocs ==
  {[name |-> NameATxt, content |-> c] : c \in {TextOne, TextBlank, TextGap}}
    \cup {[name |-> NameBPdf, content |-> c] : c \in {PdfGood, Garbage, <<>>}}
    \cup {[name |-> NameCXlsx, content |-> c] : c \in {XlsxGood, Garbage}}
Batches ==
  {<<d>> : d \in BatchDocs}
    \cup UNION {{<<d, e>> : e \in {x \in BatchDocs : x.name # d.name}} : d \in BatchDocs}

EntriesOf(docs) == [i \in DOMAIN docs |-> [filename |-> docs[i].name, job_id |-> 1]]

BatchCalls ==
  {[op |-> "batch", pc |-> "load", docs |-> docs, extract_raised |-> FALSE,
    upsert_raised |-> FALSE,
    st |-> [n \in BatchNames |-> NoStatus], h |-> <<<<>>>>,
    refs |-> [n \in BatchNames |-> <<>>]] : docs \in Batches}

BatchUnchanged ==
  UNCHANGED <<enabled, lock, doc_status, history, storage, queue, worker,
              vectorize_lock, upload, deleter, budget>>

\* main.py:199-217: load_documents extracts document by document and raises at
\* the first whose extraction raises; then the upsert, the delete of the empty
\* documents and the vector refs.
BatchVectorize ==
  /\ call.op = "batch"
  /\ call.pc = "load"
  /\ IF \E i \in DOMAIN call.docs : ExtractRaises(call.docs[i].content, call.docs[i].name.ext)
       THEN /\ call' = [call EXCEPT !.pc = "failed", !.extract_raised = TRUE]
            /\ UNCHANGED index
     ELSE \E embed_ok \in BOOLEAN :
       LET dcm == doc_chunk_map(call.docs)
           up == upsert_documents(index, upsert_payload(dcm), embed_ok)
           del == delete_documents([exists |-> up.exists, rows |-> up.rows], empty_docs(dcm))
       IN IF ~up.ok
            THEN /\ index' = [exists |-> up.exists, rows |-> up.rows]
                 /\ call' = [call EXCEPT !.pc = "failed", !.upsert_raised = TRUE]
          ELSE /\ index' = [exists |-> del.exists, rows |-> del.rows]
               /\ call' = [call EXCEPT !.pc = "report",
                    !.refs = [n \in BatchNames |->
                                IF \E k \in DOMAIN dcm : dcm[k].name = n
                                  THEN ChunkIds(dcm[CHOOSE k \in DOMAIN dcm :
                                                      dcm[k].name = n].chunks)
                                ELSE @[n]]]
  /\ BatchUnchanged

\* main.py:218-222
BatchFailed ==
  /\ call.op = "batch"
  /\ call.pc = "failed"
  /\ LET sink == FailEach([st |-> call.st, h |-> call.h], EntriesOf(call.docs),
                          call.docs, 1)
     IN call' = [call EXCEPT !.pc = "done", !.st = sink.st, !.h = sink.h]
  /\ UNCHANGED index
  /\ BatchUnchanged

\* main.py:224-230
BatchReport ==
  /\ call.op = "batch"
  /\ call.pc = "report"
  /\ LET sink == CompleteEach([st |-> call.st, h |-> call.h], EntriesOf(call.docs),
                              doc_chunk_map(call.docs), 1)
     IN call' = [call EXCEPT !.pc = "done", !.st = sink.st, !.h = sink.h]
  /\ UNCHANGED index
  /\ BatchUnchanged

InitBatch == \E c \in BatchCalls : InitCalling(NoBudget, c) /\ enabled

NextBatch ==
  \/ BatchVectorize
  \/ BatchFailed
  \/ BatchReport

SpecBatch == InitBatch /\ [][NextBatch]_vars

\* ------------------------------------------------------------ the lock alone
\* RedisCoordinator.lock and RedisLockHandle.release on one key, for callers
\* that may be threads, worker processes or hosts.  call holds the wall clock,
\* the value under the key (0 when absent), the caller whose SET put it there,
\* and each caller's handle.  The token of a caller is its reading of
\* time.time() on entry; two callers that enter between two ticks of the clock
\* read the same value.
MaxCallers == 2
MaxClock == 3
MaxReleases == 2

Callers == 1..MaxCallers
TheKey == 1
NoHandle == [pc |-> "idle", token |-> 0, releases |-> 0]

LockCall ==
  [op |-> "lock", now |-> 1, lk |-> <<0>>, holder |-> 0,
   h |-> [c \in Callers |-> NoHandle]]

LockUnchanged ==
  UNCHANGED <<enabled, lock, doc_status, history, storage, index, queue, worker,
              vectorize_lock, upload, deleter, budget>>

\* the wall clock moves on
ClockTick ==
  /\ call.op = "lock"
  /\ call.now < MaxClock
  /\ call' = [call EXCEPT !.now = @ + 1]
  /\ LockUnchanged

\* A clock whose every reading differs from the ones before it.
ReadUniqueClock(c) == call.now * MaxCallers + c

\* time.time() at redis_coord.py:90
ReadClock(c) == call.now

\* redis_coord.py:89-91
LockEnter(c) ==
  /\ call.op = "lock"
  /\ call.h[c].pc = "idle"
  /\ call' = [call EXCEPT !.h[c] = [pc |-> "waiting", token |-> ReadClock(c),
                                    releases |-> 0]]
  /\ LockUnchanged

\* redis_coord.py:93-102: SET key token NX EX ttl; a failed attempt sleeps and
\* tries again until the deadline, after which no handle is made.
LockSet(c) ==
  /\ call.op = "lock"
  /\ call.h[c].pc = "waiting"
  /\ LET got == SetNx(call.lk, TheKey, call.h[c].token)
     IN IF got.ok
          THEN call' = [call EXCEPT !.lk = got.lk, !.holder = c, !.h[c].pc = "held"]
        ELSE \/ call' = [call EXCEPT !.h[c].pc = "none"]
             \/ UNCHANGED call
  /\ LockUnchanged

\* the TTL of the key elapses
LockExpire ==
  /\ call.op = "lock"
  /\ call.lk[TheKey] # 0
  /\ call' = [call EXCEPT !.lk = <<0>>, !.holder = 0]
  /\ LockUnchanged

\* redis_coord.py:25-39: release of the handle, by the finally clause of lock
\* or by whoever holds the handle, any number of times.
HandleRelease(c) ==
  /\ call.op = "lock"
  /\ call.h[c].pc = "held"
  /\ call.h[c].releases < MaxReleases
  /\ LET after == release(call.lk, TheKey, call.h[c].token)
     IN call' = [call EXCEPT !.lk = after, !.h[c].releases = @ + 1,
                             !.holder = IF after[TheKey] = 0 THEN 0 ELSE @]
  /\ LockUnchanged

InitLock == InitCalling(NoBudget, LockCall) /\ enabled

NextLock ==
  \/ ClockTick
  \/ \E c \in Callers : LockEnter(c)
  \/ \E c \in Callers : LockSet(c)
  \/ LockExpire
  \/ \E c \in Callers : HandleRelease(c)

SpecLock == InitLock /\ [][NextLock]_vars

\* ------------------------------------------------------ the status sink alone
\* enqueue, set_status and record_event of RedisCoordinator, called with a
\* store that may fail.  fault names the Redis command of the call that
\* raises, "none" when all succeed.  call holds the Redis list of enqueue and
\* what the last call did.
MaxSinkCalls == 3

\* Without the try block: the error of the store reaches the caller.
Unguarded(fault) == [raised |-> fault # "none", logged |-> FALSE]

\* try: ... except Exception as exc: logger.warning(...)
Guarded(fault) == [raised |-> FALSE, logged |-> fault # "none"]

SinkDone(op, fault, outcome, q) ==
  [op |-> op, raised |-> outcome.raised, embed_ok |-> TRUE, logged |-> outcome.logged,
   fault |-> fault, left |-> call.left - 1, redis_queue |-> q]

\* redis_coord.py:108-115
SinkEnqueue(payload, fault) ==
  /\ call.op \in {"sink", "enqueue", "set_status", "record_event"}
  /\ call.left > 0
  /\ fault \in {"none", "rpush"}
  /\ IF ~enabled
       THEN call' = SinkDone("enqueue", "none", Guarded("none"), call.redis_queue)
     ELSE call' = SinkDone("enqueue", fault, Guarded(fault),
                           IF fault = "rpush" THEN call.redis_queue
                           ELSE Append(call.redis_queue, payload))
  /\ UNCHANGED <<enabled, lock, doc_status, history, storage, index, queue, worker,
                 vectorize_lock, upload, deleter, budget>>

\* redis_coord.py:117-128: HSET then EXPIRE in one try block.
SinkSetStatus(doc_name, status, job_id, fault) ==
  /\ call.op \in {"sink", "enqueue", "set_status", "record_event"}
  /\ call.left > 0
  /\ fault \in {"none", "hset", "expire"}
  /\ IF ~enabled
       THEN /\ call' = SinkDone("set_status", "none", Guarded("none"), call.redis_queue)
            /\ doc_status' = set_status(doc_status, doc_name, status, [job_id |-> job_id])
     ELSE /\ call' = SinkDone("set_status", fault, Guarded(fault), call.redis_queue)
          /\ doc_status' = IF fault = "hset" THEN doc_status
                           ELSE set_status(doc_status, doc_name, status,
                                           [job_id |-> job_id])
  /\ UNCHANGED <<enabled, lock, history, storage, index, queue, worker,
                 vectorize_lock, upload, deleter, budget>>

\* redis_coord.py:213-224: LPUSH then LTRIM in one try block.
SinkRecordEvent(doc_name, status, fault) ==
  /\ call.op \in {"sink", "enqueue", "set_status", "record_event"}
  /\ call.left > 0
  /\ fault \in {"none", "lpush", "ltrim"}
  /\ LET h == IF Len(history) = 0 THEN <<<<>>>> ELSE history
         ev == Event(doc_name, status, "", "", 0)
     IN IF ~enabled
          THEN /\ call' = SinkDone("record_event", "none", Guarded("none"),
                                   call.redis_queue)
               /\ history' = record_event(history, 1, ev)
        ELSE /\ call' = SinkDone("record_event", fault, Guarded(fault), call.redis_queue)
             /\ history' = IF fault = "lpush" THEN history ELSE record_event(h, 1, ev)
  /\ UNCHANGED <<enabled, lock, doc_status, storage, index, queue, worker,
                 vectorize_lock, upload, deleter, budget>>

SinkFaults == {"none", "rpush", "hset", "expire", "lpush", "ltrim"}
SinkStatuses == {"pending", "failed"}

InitSink ==
  InitCalling(NoBudget, [op |-> "sink", raised |-> FALSE, embed_ok |-> TRUE,
                         logged |-> FALSE, fault |-> "none", left |-> MaxSinkCalls,
                         redis_queue |-> <<>>])

NextSink ==
  \/ \E n \in Names, fault \in SinkFaults : SinkEnqueue(n, fault)
  \/ \E n \in Names, s \in SinkStatuses, fault \in SinkFaults : SinkSetStatus(n, s, 1, fault)
  \/ \E n \in Names, s \in SinkStatuses, fault \in SinkFaults : SinkRecordEvent(n, s, fault)

SpecSink == InitSink /\ [][NextSink]_vars

\* ------------------------------------------------------------ the context
\* RAGPipeline._build_context, exercised alone.  A text is a sequence of
\* characters; "x1" and "x2" stand for the two characters of the label between
\* "[" and ":" in a snippet's head.
MaxCtxChunks == 3
MaxCtxText == 2
MaxContextChars == 30

CtxTexts == UNION {[1..n -> {"p"}] : n \in 0..MaxCtxText}
CtxSources == {<<"a">>, <<"b">>}
CtxChunks == [source : CtxSources, text : CtxTexts]
CtxLists(n) == [1..n -> CtxChunks]

\* f"[..:{item.chunk.source}] {item.chunk.text}\n"
Snippet(item) ==
  <<"[", "x1", "x2", ":">> \o item.source \o <<"]", " ">> \o item.text \o <<"\n">>

RECURSIVE Join(_, _)
Join(parts, sep) ==
  IF parts = <<>> THEN <<>>
  ELSE IF Len(parts) = 1 THEN parts[1]
  ELSE parts[1] \o sep \o Join(Tail(parts), sep)

\* The loop of _build_context from the i-th chunk on.
RECURSIVE ContextParts(_, _, _, _, _)
ContextParts(chunks, max_chars, i, parts, current_len) ==
  IF i > Len(chunks) THEN parts
  ELSE LET snippet == Snippet(chunks[i])
       IN IF current_len + Len(snippet) > max_chars THEN parts
          ELSE ContextParts(chunks, max_chars, i + 1, Append(parts, snippet),
                            current_len + Len(snippet))

_build_context(chunks, max_chars) ==
  Join(ContextParts(chunks, max_chars, 1, <<>>, 0), <<"\n">>)

InitContext ==
  \E n \in 0..MaxCtxChunks : \E cs \in CtxLists(n) : \E m \in 0..MaxContextChars :
    /\ InitCalling(NoBudget, [op |-> "build_context", chunks |-> cs, max_chars |-> m])
    /\ ~enabled

BuildContext ==
  /\ call.op = "build_context"
  /\ call' = [op |-> "built", chunks |-> call.chunks, max_chars |-> call.max_chars,
              out |-> _build_context(call.chunks, call.max_chars)]
  /\ UNCHANGED <<enabled, lock, doc_status, history, storage, index, queue, worker,
                 vectorize_lock, upload, deleter, budget>>

SpecContext == InitContext /\ [][BuildContext]_vars

\* ------------------------------------------------------------ the chunker
\* chunk_text as the loop it is, one pass per step.  The text is the
\* characters 1..L, so a window shows the positions it was cut from.  The call
\* comes from load_documents, which passes the effective overlap of the
\* configured chunk_size and chunk_overlap, or from a caller that passes its
\* overlap as it is.  The configured overlap goes up to the chunk size (a
\* larger one makes start negative); chunks keeps the first MaxWindows windows.
MaxTextLen == 4
MaxChunkSize == 3
MaxWindows == 5

TextOf(len) == [i \in 1..len |-> i]

ChunkCalls ==
  UNION {{[op |-> "chunk_text", from_loader |-> fl, text |-> TextOf(len),
           chunk_size |-> s, chunk_overlap |-> c,
           overlap |-> IF fl THEN effective_overlap(s, c) ELSE c,
           start |-> 0, chunks |-> <<>>, odd_pass |-> FALSE] :
            fl \in BOOLEAN, len \in 0..MaxTextLen, c \in 0..s} :
         s \in 1..MaxChunkSize}

\* A next window that starts where the last one ended.
NextStartAtEnd(end, overlap) == end

\* rag.py:279
NextStart(end, overlap) == end - overlap

\* text[start:end] for 0 <= start
Slice(text, start, end) == SubSeq(text, start + 1, end)

\* One pass of the while loop.  The list is kept up to MaxWindows windows
\* long; odd_pass tells a further pass from no pass once it is that long.
ChunkPass ==
  /\ call.op = "chunk_text"
  /\ call.start < Len(call.text)
  /\ LET end == Min(call.start + call.chunk_size, Len(call.text))
         chunk == Slice(call.text, call.start, end)
         chunks == IF Len(call.chunks) < MaxWindows THEN Append(call.chunks, chunk)
                   ELSE call.chunks
     IN IF end = Len(call.text)
          THEN call' = [call EXCEPT !.op = "chunked", !.chunks = chunks]
        ELSE call' = [call EXCEPT !.chunks = chunks, !.odd_pass = ~@,
                                  !.start = NextStart(end, call.overlap)]
  /\ UNCHANGED <<enabled, lock, doc_status, history, storage, index, queue, worker,
                 vectorize_lock, upload, deleter, budget>>

\* The loop's condition is false: return chunks.
ChunkReturn ==
  /\ call.op = "chunk_text"
  /\ call.start >= Len(call.text)
  /\ call' = [call EXCEPT !.op = "chunked"]
  /\ UNCHANGED <<enabled, lock, doc_status, history, storage, index, queue, worker,
                 vectorize_lock, upload, deleter, budget>>

InitChunk == \E c \in ChunkCalls : InitCalling(NoBudget, c) /\ ~enabled

NextChunk == ChunkPass \/ ChunkReturn

\* The loop runs on its caller's thread: a pass that can run does run.
SpecChunk == InitChunk /\ [][NextChunk]_vars /\ WF_vars(NextChunk)

\* ------------------------------------------------ the vector index alone
\* The chunk lists a caller can pass: the loader's output for up to two
\* documents.
Docs == {[name |-> n, content |-> c] : n \in Names, c \in Contents}
DocLists == {<<d>> : d \in Docs} \cup {<<d, e>> : d \in Docs, e \in Docs}

ChunkMapOf(docs) ==
  [i \in 1..Len(docs) |-> [name |-> docs[i].name, chunks |-> LoadOne(docs[i])]]

IndexOnly == UNCHANGED <<enabled, lock, doc_status, history, storage, queue, worker,
                         vectorize_lock, upload, deleter, budget>>

IndexBuild ==
  /\ \E docs \in DocLists \cup {<<>>}, embed_ok \in BOOLEAN :
       LET res == build(index, load_documents(docs), embed_ok)
       IN /\ index' = [exists |-> res.exists, rows |-> res.rows]
          /\ call' = [op |-> "build", raised |-> ~res.ok, embed_ok |-> embed_ok]
  /\ IndexOnly

IndexUpsert ==
  /\ \E docs \in DocLists, embed_ok \in BOOLEAN :
       LET res == upsert_documents(index, ChunkMapOf(docs), embed_ok)
       IN /\ index' = [exists |-> res.exists, rows |-> res.rows]
          /\ call' = [op |-> "upsert", raised |-> ~res.ok, embed_ok |-> embed_ok,
                       names |-> {docs[i].name : i \in DOMAIN docs}]
  /\ IndexOnly

IndexDelete ==
  /\ \E names \in SUBSET Names :
       LET res == delete_documents(index, names)
       IN /\ index' = [exists |-> res.exists, rows |-> res.rows]
          /\ call' = [op |-> "delete", raised |-> res.error # "", embed_ok |-> TRUE,
                       error |-> res.error, names |-> names, missing |-> ~index.exists,
                       found |-> res.removed]
  /\ IndexOnly

IndexSearch ==
  /\ \E embed_ok \in BOOLEAN :
       LET res == search(index, embed_ok)
       IN /\ index' = [exists |-> res.exists, rows |-> index.rows]
          /\ call' = [op |-> "search", raised |-> ~res.ok, embed_ok |-> embed_ok,
                       error |-> res.error, missing |-> ~index.exists,
                       found |-> Cardinality(res.rows)]
  /\ IndexOnly

IndexStats ==
  /\ LET res == stats(index)
     IN call' = [op |-> "stats", raised |-> res.error # "", embed_ok |-> TRUE,
                 error |-> res.error, missing |-> ~index.exists, found |-> res.chunks]
  /\ UNCHANGED index
  /\ IndexOnly

InitIndex ==
  InitWith([uploads |-> 0, files |-> 0, reindex |-> 0, delete |-> 0, search |-> 0])

NextIndex ==
  \/ IndexBuild
  \/ IndexUpsert
  \/ IndexDelete
  \/ IndexSearch
  \/ IndexStats

SpecIndex == InitIndex /\ [][NextIndex]_vars

\* ------------------------------------------------------ retrieve alone
Strategies == {"none", "qianfan", "openai", "api"}

\* The calls of retrieve: the reranker configured, what the index holds for the
\* query, the request's top_k and what the reranker's remote call will do.
RetrieveRequests(st) ==
  {[op |-> "retrieve", strategy |-> st, recall |-> rc, top_k |-> k, resp |-> rp] :
     rc \in RecallLists, k \in 0..MaxTopK, rp \in ResponsesFor(st)}

InitRetrieve ==
  \E st \in Strategies : \E c \in RetrieveRequests(st) : InitCalling(NoBudget, c) /\ ~enabled

Retrieve ==
  /\ call.op = "retrieve"
  /\ call' = [op |-> "retrieved", request |-> call,
              out |-> retrieve(call.strategy, call.recall, call.top_k, call.resp)]
  /\ UNCHANGED <<enabled, lock, doc_status, history, storage, index, queue, worker,
                 vectorize_lock, upload, deleter, budget>>

SpecRetrieve == InitRetrieve /\ [][Retrieve]_vars

\* ------------------------------------------------------- agent orchestrator
\* AgentOrchestrator.handle, exercised alone.  A query is a sequence of
\* symbols: a space, a greeting word ("nihao" stands for the first alternative
\* of GREETING_PATTERN, "hi" for its latin ones), a character of the pattern's
\* tail class ("!"), or any other word ("q").  Scores are in units of one half,
\* so ScoreOne is the 1.0 the threshold is clamped to.
ScoreOne == 2
MaxQueries == 2
MaxLatency == 1

QNihao == <<"nihao">>
QHi == <<" ", "hi", "!">>
QOther == <<"q", " ">>
QBlank == <<" ">>
Queries == {QNihao, QHi, QOther, QBlank}
GreetingWords == {"nihao", "hi"}
GreetingTail == {"!"}
FALLBACK_GREETING == "FALLBACK_GREETING"
FALLBACK_NO_CONTEXT == "FALLBACK_NO_CONTEXT"
DefaultSubject == <<"subject">>
Generated == "generated"

QueryRequests == [query : Queries, top_k : {0, 1}]
Thresholds == (0 - 1)..(ScoreOne + 1)
\* The reranker is left unconfigured here: what retrieve does with each reranker
\* is explored by SpecRetrieve, and the gate sees only the hits it returns.
OrchestratorSettings ==
  [cache_enabled : BOOLEAN, min_relevance : Thresholds, strategy : {"none"}]

\* _cache_key: the digest of query, top_k and max_tokens (max_tokens is left
\* at None in every request here).
cache_key(req) == <<req.query, req.top_k>>

\* The gate with its filter removed.
apply_relevance_threshold_off(hits, min_relevance) ==
  [filtered |-> hits, best_score |-> 0]

\* A gate that compares with the configured value as it is.
apply_relevance_threshold_unclamped(hits, min_relevance) ==
  LET best == IF hits = <<>> THEN 0
              ELSE CHOOSE b \in {hits[i].score : i \in DOMAIN hits} :
                     \A i \in DOMAIN hits : hits[i].score <= b
      Keep(h) == h.score >= min_relevance
  IN IF min_relevance <= 0 THEN [filtered |-> hits, best_score |-> best]
     ELSE [filtered |-> SelectSeq(hits, Keep), best_score |-> best]

apply_relevance_threshold(hits, min_relevance) ==
  LET threshold == Max(0, Min(ScoreOne, min_relevance))
      best == IF hits = <<>> THEN 0
              ELSE CHOOSE b \in {hits[i].score : i \in DOMAIN hits} :
                     \A i \in DOMAIN hits : hits[i].score <= b
      Keep(h) == h.score >= threshold
  IN IF threshold <= 0 THEN [filtered |-> hits, best_score |-> best]
     ELSE [filtered |-> SelectSeq(hits, Keep), best_score |-> best]

_is_greeting(text) ==
  LET normalized == Strip(text)
      NotSpace(c) == c # " "
      compact == SelectSeq(normalized, NotSpace)
  IN IF text = <<>> THEN FALSE
     ELSE IF normalized = <<>> THEN FALSE
     ELSE IF /\ normalized[1] \in GreetingWords
             /\ \A i \in 2..Len(normalized) : normalized[i] \in GreetingTail
       THEN TRUE
     ELSE compact = <<"hi">>

_fallback_text(query) ==
  LET clean == Strip(query)
  IN IF _is_greeting(clean) THEN <<FALLBACK_GREETING>>
     ELSE <<FALLBACK_NO_CONTEXT, IF clean = <<>> THEN DefaultSubject ELSE clean>>

_build_low_relevance_response(query) ==
  [answer |-> _fallback_text(query), sources |-> <<>>, latency_ms |-> 0]

GeneratorRaises == 0 - 1
NoResponse == [answer |-> <<>>, sources |-> <<>>, latency_ms |-> 0]
NoLast ==
  [kind |-> "none", req |-> [query |-> <<>>, top_k |-> 0], from_cache |-> FALSE,
   hits |-> <<>>, generated |-> FALSE, resp |-> NoResponse]

\* handle(req): recall is what the index returns for the query now, rp what the
\* reranker's remote call does, latency the time measured around retrieval and
\* generation, or GeneratorRaises when the answer generator raises.
Handle(req, recall, rp, latency) ==
  LET s == call.settings
      key == cache_key(req)
      hits == retrieve(s.strategy, recall, req.top_k, rp).result
      gate == apply_relevance_threshold(hits, s.min_relevance)
      low == _build_low_relevance_response(req.query)
      resp == [answer |-> <<Generated>>, sources |-> gate.filtered,
               latency_ms |-> latency]
      Stored(r) == IF s.cache_enabled THEN (key :> r) @@ call.cache ELSE call.cache
      Done(kind, cached, hs, gen, r) ==
        [kind |-> kind, req |-> req, from_cache |-> cached, hits |-> hs,
         generated |-> gen, resp |-> r]
  IN /\ call.op = "orchestrator"
     /\ call.left > 0
     /\ IF s.cache_enabled /\ key \in DOMAIN call.cache
          THEN call' = [call EXCEPT !.left = @ - 1,
                          !.last = Done("returned", TRUE, <<>>, FALSE, call.cache[key])]
        ELSE IF gate.filtered = <<>>
          THEN call' = [call EXCEPT !.left = @ - 1, !.cache = Stored(low),
                          !.last = Done("returned", FALSE, hits, FALSE, low)]
        ELSE IF latency = GeneratorRaises
          THEN call' = [call EXCEPT !.left = @ - 1,
                          !.last = Done("raised", FALSE, hits, TRUE, NoResponse)]
        ELSE call' = [call EXCEPT !.left = @ - 1, !.cache = Stored(resp),
                        !.last = Done("returned", FALSE, hits, TRUE, resp)]
     /\ UNCHANGED <<enabled, lock, doc_status, history, storage, index, queue, worker,
                    vectorize_lock, upload, deleter, budget>>

\* The endpoints that call handle are plain functions, which the server runs
\* on the threads of its pool, and handle takes no lock: a second call may run
\* whole while a first one is between its look into the cache and its store.
\* HandleMiss is the first part of such a call, agents.py:33-77: the look
\* that finds nothing, retrieval, the gate and the answer; what it will
\* return waits in call.pending.
HandleMiss(req, recall, rp, latency) ==
  LET s == call.settings
      hits == retrieve(s.strategy, recall, req.top_k, rp).result
      gate == apply_relevance_threshold(hits, s.min_relevance)
      low == _build_low_relevance_response(req.query)
      resp == [answer |-> <<Generated>>, sources |-> gate.filtered,
               latency_ms |-> latency]
      Done(kind, hs, gen, r) ==
        [kind |-> kind, req |-> req, from_cache |-> FALSE, hits |-> hs,
         generated |-> gen, resp |-> r]
  IN /\ call.op = "orchestrator"
     /\ call.left > 0
     /\ call.pending = NoLast
     /\ ~(s.cache_enabled /\ cache_key(req) \in DOMAIN call.cache)
     /\ call' = [call EXCEPT !.left = @ - 1, !.pending =
          IF gate.filtered = <<>> THEN Done("returned", hits, FALSE, low)
          ELSE IF latency = GeneratorRaises THEN Done("raised", hits, TRUE, NoResponse)
          ELSE Done("returned", hits, TRUE, resp)]
     /\ UNCHANGED <<enabled, lock, doc_status, history, storage, index, queue, worker,
                    vectorize_lock, upload, deleter, budget>>

\* agents.py:53-55 and 79-81: the second part, the store and the return.
HandleStore ==
  /\ call.op = "orchestrator"
  /\ call.pending # NoLast
  /\ call' = [call EXCEPT
       !.cache = IF call.settings.cache_enabled /\ call.pending.kind = "returned"
                   THEN (cache_key(call.pending.req) :> call.pending.resp) @@ @
                 ELSE @,
       !.last = call.pending,
       !.pending = NoLast]
  /\ UNCHANGED <<enabled, lock, doc_status, history, storage, index, queue, worker,
                 vectorize_lock, upload, deleter, budget>>

InitHandle ==
  \E s \in OrchestratorSettings :
    /\ InitCalling(NoBudget, [op |-> "orchestrator", settings |-> s, cache |-> <<>>,
                              left |-> MaxQueries, last |-> NoLast, pending |-> NoLast])
    /\ ~enabled

NextHandle ==
  \E req \in QueryRequests, recall \in RecallLists,
     latency \in {GeneratorRaises} \cup (0..MaxLatency) :
    \E rp \in ResponsesFor(call.settings.strategy) :
      Handle(req, recall, rp, latency)

SpecHandle == InitHandle /\ [][NextHandle]_vars

\* The cache under calls that overlap: at most one call is between its look
\* and its store while the others run whole.  The index returns at most
\* MaxCacheHits chunks, and differently from one call to the next, as it does
\* when documents are ingested or deleted in between.
MaxCacheHits == 1
CacheSettings ==
  [cache_enabled : BOOLEAN, min_relevance : {0, ScoreOne}, strategy : {"none"}]
CacheRecalls == {rc \in RecallLists : Len(rc) <= MaxCacheHits}

InitCache ==
  \E s \in CacheSettings :
    /\ InitCalling(NoBudget, [op |-> "orchestrator", settings |-> s, cache |-> <<>>,
                              left |-> MaxQueries, last |-> NoLast, pending |-> NoLast])
    /\ ~enabled

NextCache ==
  \/ \E req \in QueryRequests, recall \in CacheRecalls,
        latency \in {GeneratorRaises} \cup (0..MaxLatency) :
       \E rp \in ResponsesFor(call.settings.strategy) :
         \/ Handle(req, recall, rp, latency)
         \/ HandleMiss(req, recall, rp, latency)
  \/ HandleStore

SpecCache == InitCache /\ [][NextCache]_vars

\* --------------------------------------------------- streaming and answering
\* handle_stream is a generator: each step below is what one next() of it
\* runs.  A chunk's source and text are made of its name; the chat backend is
\* asked with a prompt [template, query, context] and answers with deltas, of
\* which the empty ones are dropped by generate_stream.  With use_langchain
\* set, handle asks LangChainRAG.answer instead, which searches the index for
\* itself with settings.top_k and fills its own template.
MaxDeltas == 2

ChunkOf(name) == [source |-> <<"a">>, text |-> <<name>>]
ContextOf(hits) == [i \in DOMAIN hits |-> ChunkOf(hits[i].chunk)]
Deltas == {<<>>, <<"t1">>, <<"t2">>}
BackendStreams == UNION {[1..n -> Deltas] : n \in 0..MaxDeltas}

\* generate_answer / generate_answer_stream: the prompt sent to self.llm
rag_prompt(query, hits) ==
  [backend |-> "llm", template |-> "ANSWER_PROMPT", query |-> query,
   context |-> _build_context(ContextOf(hits), MaxContextChars)]

\* LangChainRAG.answer: the prompt sent to its own chat model
lc_prompt(query, recall) ==
  LET docs == ContextOf(Take(recall, TopK))
  IN [backend |-> "lc_llm", template |-> "langchain", query |-> query,
      context |-> Join([i \in DOMAIN docs |->
                          <<"[", "x1", "x2", ":">> \o docs[i].source \o <<"]", " ">>
                            \o docs[i].text],
                       <<"\n">>)]

\* SourceAttribution(source, snippet = text[:160], score) of each hit
SourcesOf(hits) ==
  [i \in DOMAIN hits |->
     [source |-> ChunkOf(hits[i].chunk).source,
      snippet |-> Take(ChunkOf(hits[i].chunk).text, 160), score |-> hits[i].score]]

\* The elements a stream yields: "__META__" + json.dumps(meta), or answer text
MetaElement(sources, low_relevance, best_score) ==
  [marker |-> "__META__", sources |-> sources, low_relevance |-> low_relevance,
   best_score |-> best_score, text |-> <<>>]
TextElement(text) ==
  [marker |-> "", sources |-> <<>>, low_relevance |-> FALSE, best_score |-> 0,
   text |-> text]

NoPrompt == [backend |-> "none", template |-> "", query |-> <<>>, context |-> <<>>]

StreamCalls ==
  {[op |-> "query", min_relevance |-> t, use_langchain |-> lc, query |-> q,
    recall |-> rc, backend |-> bs, phase |-> "start", emitted |-> <<>>, pos |-> 0,
    prompt |-> NoPrompt, sync |-> [done |-> FALSE, sources |-> <<>>, prompt |-> NoPrompt]] :
     t \in Thresholds, lc \in BOOLEAN, q \in {QNihao, QOther}, rc \in RecallLists,
     bs \in BackendStreams}

StreamUnchanged ==
  UNCHANGED <<enabled, lock, doc_status, history, storage, index, queue, worker,
              vectorize_lock, upload, deleter, budget>>

\* agents.py:86-105: retrieve, the gate, and the metadata element; retrieve
\* may raise (the embedding of the query fails), before anything is emitted.
StreamStart(retrieve_ok) ==
  /\ call.op = "query"
  /\ call.phase = "start"
  /\ LET hits == retrieve("none", call.recall, 0, Raises).result
         gate == apply_relevance_threshold(hits, call.min_relevance)
     IN IF ~retrieve_ok THEN call' = [call EXCEPT !.phase = "raised"]
        ELSE IF gate.filtered = <<>>
          THEN call' = [call EXCEPT !.phase = "fallback",
                  !.emitted = <<MetaElement(<<>>, TRUE, gate.best_score)>>]
        ELSE call' = [call EXCEPT !.phase = "deltas",
                !.prompt = rag_prompt(call.query, gate.filtered),
                !.emitted = <<MetaElement(SourcesOf(gate.filtered), FALSE,
                                          gate.best_score)>>]
  /\ StreamUnchanged

\* agents.py:91-92
StreamFallback ==
  /\ call.op = "query"
  /\ call.phase = "fallback"
  /\ call' = [call EXCEPT !.phase = "done",
                          !.emitted = Append(@, TextElement(_fallback_text(call.query)))]
  /\ StreamUnchanged

\* A backend stream that let its empty deltas through.
StreamDeltaKeepsEmpty(backend_ok) ==
  /\ call.op = "query"
  /\ call.phase = "deltas"
  /\ IF call.pos >= Len(call.backend) THEN call' = [call EXCEPT !.phase = "done"]
     ELSE IF ~backend_ok THEN call' = [call EXCEPT !.phase = "raised"]
     ELSE call' = [call EXCEPT !.pos = @ + 1,
                     !.emitted = Append(@, TextElement(call.backend[call.pos + 1]))]
  /\ StreamUnchanged

\* agents.py:107-109 with rag.py:401-404: the next delta of the backend, which
\* may fail instead of sending it.
StreamDelta(backend_ok) ==
  /\ call.op = "query"
  /\ call.phase = "deltas"
  /\ IF call.pos >= Len(call.backend) THEN call' = [call EXCEPT !.phase = "done"]
     ELSE IF ~backend_ok THEN call' = [call EXCEPT !.phase = "raised"]
     ELSE LET delta == call.backend[call.pos + 1]
          IN call' = [call EXCEPT !.pos = @ + 1,
                         !.emitted = IF delta = <<>> THEN @
                                     ELSE Append(@, TextElement(delta))]
  /\ StreamUnchanged

\* agents.py:42-71: what handle reports and sends for the same request when
\* it finds no cached response.
SyncAnswer ==
  /\ call.op = "query"
  /\ ~call.sync.done
  /\ LET hits == retrieve("none", call.recall, 0, Raises).result
         gate == apply_relevance_threshold(hits, call.min_relevance)
     IN call' = [call EXCEPT !.sync =
          IF gate.filtered = <<>>
            THEN [done |-> TRUE, sources |-> <<>>, prompt |-> NoPrompt]
          ELSE [done |-> TRUE, sources |-> SourcesOf(gate.filtered),
                prompt |-> IF call.use_langchain THEN lc_prompt(call.query, call.recall)
                           ELSE rag_prompt(call.query, gate.filtered)]]
  /\ StreamUnchanged

InitStream == \E c \in StreamCalls : InitCalling(NoBudget, c) /\ ~enabled

NextStream ==
  \/ \E retrieve_ok \in BOOLEAN : StreamStart(retrieve_ok)
  \/ StreamFallback
  \/ \E backend_ok \in BOOLEAN : StreamDelta(backend_ok)
  \/ SyncAnswer

SpecStream == InitStream /\ [][NextStream]_vars

\* ------------------------------------------------------- embedding provider
\* EmbeddingProvider.embed, exercised alone.  An exception of the backend call
\* is its class (RateLimitError or not) and its message, a sequence of words.
\* Delays are whole units: the configured base delay is one unit and the
\* configured cap a few of them.
MaxTexts == 3
MaxBatchSize == 2
MaxRetries == 3
RetryBaseDelay == 1
RetryMaxDelay == 3

Keywords ==
  {<<"429">>, <<"rate", "limit">>, <<"too", "many", "requests">>, <<"tpm">>, <<"rpm">>}
Messages ==
  {<<"Error", "429">>, <<"Rate", "limit", "reached">>, <<"TPM", "exceeded">>,
   <<"rate", "of", "limit">>, <<"connection", "reset">>}
Exceptions ==
  {[rate_limit |-> TRUE, msg |-> <<"quota">>]} \cup
  {[rate_limit |-> FALSE, msg |-> m] : m \in Messages}
NoExc == [rate_limit |-> FALSE, msg |-> <<>>]
Returns == [rate_limit |-> FALSE, msg |-> <<"ok">>]

\* str.lower on a word
Lower(w) ==
  CASE w = "Error" -> "error" [] w = "Rate" -> "rate" [] w = "TPM" -> "tpm" [] OTHER -> w

Contains(msg, kw) ==
  \E i \in 1..(Len(msg) - Len(kw) + 1) : SubSeq(msg, i, i + Len(kw) - 1) = kw

\* Every error taken for a throttling one.
retry_every_error(exc) == TRUE

_is_retryable_error(exc) ==
  IF exc.rate_limit THEN TRUE
  ELSE LET msg == [i \in DOMAIN exc.msg |-> Lower(exc.msg[i])]
       IN \E token \in Keywords : Contains(msg, token)

\* Delays are in units of 0.1 s, the least base delay embed accepts.
DelayFloor == 1
EmbedSettings ==
  [embedding_batch_size : 0..MaxBatchSize, embedding_max_retries : 0..MaxRetries,
   embedding_retry_base_delay : {0, RetryBaseDelay, 2 * RetryBaseDelay},
   embedding_retry_max_delay : {0, RetryMaxDelay}]

\* embedding_provider.py:103-104
base_delay(settings) ==
  Max(DelayFloor, IF settings.embedding_retry_base_delay # 0
                    THEN settings.embedding_retry_base_delay ELSE DelayFloor)
max_delay(settings) ==
  Max(base_delay(settings), IF settings.embedding_retry_max_delay # 0
                              THEN settings.embedding_retry_max_delay
                            ELSE base_delay(settings))

\* A backoff without its cap.
next_delay_uncapped(delay, settings) == delay * 2

\* embedding_provider.py:126
next_delay(delay, settings) == Min(delay * 2, max_delay(settings))
NoRows == 0 - 1

EmbedCalls ==
  {[op |-> "embed", settings |-> s, texts |-> n, start |-> 0, attempt |-> 0,
    delay |-> base_delay(s), waits |-> <<>>, batches |-> <<>>, calls |-> <<>>,
    retried |-> {},
    exc |-> NoExc, result |-> NoRows] : s \in EmbedSettings, n \in 0..MaxTexts}

\* One pass of the while loop: the provider call for the current batch, which
\* returns (outcome = Returns) or raises outcome.  calls counts the provider
\* calls made for each batch, retried collects the errors slept on and waits
\* the sleeps made for the current batch.
EmbedBatch(outcome) ==
  LET batch_size == Max(1, IF call.settings.embedding_batch_size # 0
                             THEN call.settings.embedding_batch_size ELSE 1)
      max_retries == Max(1, IF call.settings.embedding_max_retries # 0
                              THEN call.settings.embedding_max_retries ELSE 1)
      chunk == Min(batch_size, call.texts - call.start)
      attempt == call.attempt + 1
      called == IF call.attempt = 0 THEN Append(call.calls, 1)
                ELSE [call.calls EXCEPT ![Len(call.calls)] = @ + 1]
  IN /\ call.op = "embed"
     /\ call.start < call.texts
     /\ IF outcome = Returns
          THEN call' = [call EXCEPT !.batches = Append(@, chunk), !.calls = called,
                          !.start = @ + batch_size, !.attempt = 0,
                          !.delay = base_delay(call.settings), !.waits = <<>>]
        ELSE IF attempt >= max_retries \/ ~_is_retryable_error(outcome)
          THEN call' = [call EXCEPT !.op = "embed_raised", !.calls = called,
                          !.attempt = attempt, !.exc = outcome]
        ELSE call' = [call EXCEPT !.calls = called, !.attempt = attempt,
                        !.exc = outcome, !.retried = @ \cup {outcome},
                        !.waits = Append(@, call.delay),
                        !.delay = next_delay(call.delay, call.settings)]
     /\ UNCHANGED <<enabled, lock, doc_status, history, storage, index, queue, worker,
                    vectorize_lock, upload, deleter, budget>>

RECURSIVE SumSeq(_)
SumSeq(s) == IF s = <<>> THEN 0 ELSE Head(s) + SumSeq(Tail(s))

\* The return of embed: the stacked batches, or the empty array for no text.
EmbedReturn ==
  /\ call.op = "embed"
  /\ call.start >= call.texts
  /\ call' = [call EXCEPT !.op = "embed_returned", !.result = SumSeq(call.batches)]
  /\ UNCHANGED <<enabled, lock, doc_status, history, storage, index, queue, worker,
                 vectorize_lock, upload, deleter, budget>>

InitEmbed == \E c \in EmbedCalls : InitCalling(NoBudget, c) /\ ~enabled

NextEmbed == (\E outcome \in {Returns} \cup Exceptions : EmbedBatch(outcome)) \/ EmbedReturn

\* embed runs on its caller's thread and sleeps for a bounded delay between
\* attempts, so a pass of its loop that can run does run.
SpecEmbed == InitEmbed /\ [][NextEmbed]_vars /\ WF_vars(NextEmbed)

\* ================================================================ claims
Last(s) == s[Len(s)]

\* The rows the loader's chunks of one version of a document make.
VersionRows(name, content) ==
  LET chunks == LoadOne([name |-> name, content |-> content])
  IN {RowOf(chunks[i]) : i \in 1..Len(chunks)}

AllContents == {f.content : f \in UploadFiles}

\* The request is inside the scoped section of the per-document lock.
InSection(r) == upload[r].pc \in {"uploading", "save", "vectorizing"}

\* The steps in which a worker ends its task.
Reports(w) == worker[w].pc = "report" /\ worker'[w].pc = "idle"
Fails(w) == worker[w].pc = "failed" /\ worker'[w].pc = "idle"

LastIs(h, job_id, status, error, note) ==
  /\ job_id \in 1..Len(h)
  /\ h[job_id] # <<>>
  /\ Last(h[job_id]).status = status
  /\ Last(h[job_id]).error = error
  /\ Last(h[job_id]).note = note

\* ---------------------------------------------------------------- C1
\* C1: when a job reports document D completed, and D's stored bytes are the
\* bytes that job loaded, the rows of D in the vector index are exactly the
\* chunks of that content: every new chunk is present, none of another version.
C1_CompletedHoldsExactlyNewChunks ==
  [][\A w \in Workers :
       (enabled /\ Reports(w)) =>
         \A i \in 1..Len(worker[w].requested_docs) :
           LET d == worker[w].requested_docs[i]
           IN (storage[d.name].exists /\ storage[d.name].content = d.content)
                => RowsOf(index.rows, d.name) = VersionRows(d.name, d.content)]_vars

\* ---------------------------------------------------------------- C2
\* C2: with coordination enabled, two upload requests are never inside the
\* locked section (uploading, save, vectorizing) for the same document name at
\* once, the one inside holds the lock, and the rows of a document in the index
\* are never a mixture of the chunks of two versions.
C2_SameNameUploadsSerialized ==
  enabled =>
    /\ \A r1, r2 \in Uploads :
         (r1 # r2 /\ InSection(r1) /\ InSection(r2))
           => upload[r1].filename # upload[r2].filename
    /\ \A r \in Uploads : InSection(r) => lock[upload[r].filename] = upload[r].token
    /\ \A n \in Names :
         \E c \in AllContents : RowsOf(index.rows, n) \subseteq VersionRows(n, c)

\* Two requests for one name: one in the section, the other has found the lock
\* held.
C2_Witness ==
  /\ enabled
  /\ \E r1, r2 \in Uploads :
       /\ r1 # r2
       /\ InSection(r1)
       /\ upload[r2].pc = "lock"
       /\ upload[r2].tried
       /\ upload[r1].filename = upload[r2].filename

\* ---------------------------------------------------------------- C3
\* The jobs of a document name that are in flight: the lock has been acquired
\* and the job has not yet reported completed or failed.
InFlight(n) ==
  {upload[r].job_id : r \in {q \in Uploads : InSection(q) /\ upload[q].filename = n}}
  \cup UNION {{upload[r].successes[i].job_id :
                 i \in {k \in 1..Len(upload[r].successes) :
                          upload[r].successes[k].filename = n}} :
              r \in {q \in Uploads : upload[q].pc # "done"}}
  \cup UNION {{queue[t][i].job_id :
                 i \in {k \in 1..Len(queue[t]) : queue[t][k].filename = n}} :
              t \in 1..Len(queue)}
  \cup UNION {{worker[w].entries[i].job_id :
                 i \in {k \in 1..Len(worker[w].entries) :
                          /\ worker[w].entries[k].filename = n
                          /\ \E j \in 1..Len(worker[w].requested_docs) :
                               worker[w].requested_docs[j].name = n}} :
              w \in {v \in Workers : worker[v].pc # "idle"}}

\* C3: with coordination enabled, at every moment at most one ingestion of a
\* document name is in flight.
C3_AtMostOneInFlight ==
  enabled => \A n \in Names : Cardinality(InFlight(n)) <= 1

\* ---------------------------------------------------------------- C4
\* C4: what a search reads while a job is replacing document D holds, of the
\* chunks the job makes of D, either none or all of them, and with all of them
\* nothing else under D's name.
C4_SearchSeesWholeVersion ==
  [][budget'.search < budget.search =>
       LET seen == search(index, TRUE).rows
       IN \A w \in Workers :
            worker[w].pc # "idle" =>
              \A i \in 1..Len(worker[w].requested_docs) :
                LET d == worker[w].requested_docs[i]
                    new == VersionRows(d.name, d.content)
                    mine == RowsOf(seen, d.name)
                IN mine \cap new = {} \/ mine = new]_vars

\* ---------------------------------------------------------------- C5
Quiescent ==
  /\ \A r \in Uploads : upload[r].pc \in {"idle", "done"}
  /\ queue = <<>>
  /\ \A w \in Workers : worker[w].pc = "idle"
  /\ deleter.pc = "idle"

AllCompleted ==
  \A r \in Uploads :
    \A i \in 1..Len(upload[r].successes) :
      LET e == upload[r].successes[i]
      IN history[e.job_id] # <<>> /\ Last(history[e.job_id]).status = "completed"

\* C5: once every request has returned and every scheduled job has reported
\* completed, the rows under each stored document's name are exactly the chunks
\* of its stored bytes.
C5_IndexMatchesStoredBytes ==
  (enabled /\ Quiescent /\ AllCompleted) =>
    \A n \in Names :
      storage[n].exists => RowsOf(index.rows, n) = VersionRows(n, storage[n].content)

\* ---------------------------------------------------------------- C6
\* C6 as stated: when the shared indexing section of a job raises, every
\* document of the scheduled batch is reported failed with the generic error.
C6_WholeBatchFailedAlike ==
  [][\A w \in Workers :
       (enabled /\ Fails(w)) =>
         \A i \in 1..Len(worker[w].entries) :
           LastIs(history', job_map(worker[w].entries, worker[w].entries[i].filename),
                  "failed", "index_failed", "")]_vars

\* C6: when the shared indexing section of a job raises, every document of the
\* batch that was loaded into the section is reported failed with the generic
\* error, every other document of the batch has been reported failed as not
\* found, and no job of the batch has reported completed.
C6_LoadedDocsFailedAlike ==
  [][\A w \in Workers :
       (enabled /\ Fails(w)) =>
         /\ \A i \in 1..Len(worker[w].requested_docs) :
              LastIs(history',
                     job_map(worker[w].entries, worker[w].requested_docs[i].name),
                     "failed", "index_failed", "")
         /\ \A i \in 1..Len(worker[w].entries) :
              LET e == worker[w].entries[i]
                  job_id == job_map(worker[w].entries, e.filename)
              IN /\ (\A k \in 1..Len(worker[w].requested_docs) :
                        worker[w].requested_docs[k].name # e.filename)
                      => LastIs(history', job_id, "failed", "not_found", "")
                 /\ \A k \in 1..Len(history'[e.job_id]) :
                      history'[e.job_id][k].status # "completed"]_vars

\* Both documents of one batch have been failed with the generic error.
C6_Witness ==
  /\ enabled
  /\ \A w \in Workers : worker[w].pc = "idle"
  /\ \E j1, j2 \in 1..Len(history) :
       /\ j1 # j2
       /\ LastIs(history, j1, "failed", "index_failed", "")
       /\ LastIs(history, j2, "failed", "index_failed", "")
       /\ Last(history[j1]).doc # Last(history[j2]).doc
       /\ \E r \in Uploads :
            upload[r].successes =
              <<[filename |-> Last(history[j1]).doc, job_id |-> j1],
                [filename |-> Last(history[j2]).doc, job_id |-> j2]>>

\* ---------------------------------------------------------------- C7
ZeroChunkDocs(w) ==
  {i \in 1..Len(worker[w].requested_docs) : LoadOne(worker[w].requested_docs[i]) = <<>>}

C8_EmbeddingFailureLeavesIndex ==
  [][(call'.op \in {"build", "upsert"} /\ call'.raised /\ ~call'.embed_ok)
       => index' = index]_vars

\* The embedding of an upsert has failed on a table that holds rows.
C8_Witness ==
  /\ call.op = "upsert"
  /\ call.raised
  /\ ~call.embed_ok
  /\ index.rows # {}

\* ---------------------------------------------------------------- C9
StatusPath ==
  {<<"pending", "uploading">>, <<"uploading", "vectorizing">>,
   <<"vectorizing", "completed">>, <<"vectorizing", "failed">>,
   <<"uploading", "failed">>, <<"pending", "failed">>}

\* C9: the statuses reported for an upload job that is not rejected as busy
\* follow pending, uploading, vectorizing, completed or failed, with failed
\* also reached from an earlier state, and nothing after completed or failed.
C9_StatusesFollowPath ==
  \A j \in 1..Len(history) :
    LET h == history[j]
    IN (h # <<>> /\ h[1].status = "pending"
          /\ \A i \in 1..Len(h) : h[i].status # "busy")
         => \A i \in 1..(Len(h) - 1) : <<h[i].status, h[i + 1].status>> \in StatusPath

\* --------------------------------------------------------------- C10
\* C10: a job that is reported busy has never been reported pending.
C10_BusyNeverPending ==
  \A j \in 1..Len(history) :
    (\E i \in 1..Len(history[j]) : history[j][i].status = "busy")
      => \A i \in 1..Len(history[j]) : history[j][i].status # "pending"

\* --------------------------------------------------------------- C11
HasStatus(h, status) == \E i \in 1..Len(h) : h[i].status = status

\* C11: a request that is acquiring the lock leaves the acquisition, with the
\* lock or without a handle; when it leaves without a handle under enabled
\* coordination the file is reported busy and listed as failed, nothing is
\* stored or scheduled in that step, and a job that was reported busy is never
\* among the accepted files, the queued tasks or the running tasks.
C11_BoundedWaitThenBusy ==
  /\ [][\A r \in Uploads :
          /\ (enabled /\ upload[r].pc = "lock" /\ upload'[r].pc \notin {"lock", "uploading"})
               => /\ LastIs(history', upload[r].job_id, "busy", "", "locked")
                  /\ doc_status'[upload[r].filename].status = "busy"
                  /\ [filename |-> upload[r].filename, reason |-> "busy"]
                       \in upload'[r].failures
                  /\ upload'[r].successes = upload[r].successes
                  /\ storage' = storage
                  /\ queue' = queue
                  /\ lock' = lock
          /\ \A j \in 1..Len(history') :
               HasStatus(history'[j], "busy") =>
                 /\ \A i \in 1..Len(upload'[r].successes) :
                      upload'[r].successes[i].job_id # j
                 /\ \A t \in 1..Len(queue') : \A i \in 1..Len(queue'[t]) :
                      queue'[t][i].job_id # j
                 /\ \A w \in Workers : \A i \in 1..Len(worker'[w].entries) :
                      worker'[w].entries[i].job_id # j]_vars
  /\ \A r \in Uploads : (upload[r].pc = "lock") ~> (upload[r].pc # "lock")

\* A file was reported busy while the other request, inside the section for
\* the same name, had stored its own bytes; the rejected bytes are not stored.
C11_Witness ==
  /\ enabled
  /\ \E r1, r2 \in Uploads :
       /\ r1 # r2
       /\ upload[r1].pc = "vectorizing"
       /\ [filename |-> upload[r1].filename, reason |-> "busy"] \in upload[r2].failures
       /\ upload[r2].pc = "schedule"
       /\ upload[r2].successes = <<>>
       /\ storage[upload[r1].filename].content = upload[r1].content
       /\ \E j \in 1..Len(history) : LastIs(history, j, "busy", "", "locked")

C13_RerankFailureFallsBack ==
  (call.op = "retrieved" /\ call.out.rerank_raised) =>
    LET k == IF call.request.top_k # 0 THEN call.request.top_k ELSE TopK
        n == IF k <= Len(call.request.recall) THEN k ELSE Len(call.request.recall)
    IN call.out.result = [i \in 1..n |-> call.request.recall[i]]

\* The reranker raised on more hits than top_k, and fewer were returned.
C13_Witness ==
  /\ call.op = "retrieved"
  /\ call.out.rerank_raised
  /\ call.out.result # <<>>
  /\ Len(call.out.hits) > Len(call.out.result)

\* --------------------------------------------------------------- C15
\* C15: the list a reranker returns holds no candidate twice.
C15_RerankReturnsNoDuplicate ==
  (call.op = "retrieved" /\ call.request.strategy # "none" /\ ~call.out.rerank_raised) =>
    \A i, j \in 1..Len(call.out.result) :
      i # j => call.out.result[i].chunk # call.out.result[j].chunk

\* --------------------------------------------------------------- C14
\* C14: when handle retrieves (no cached response is returned) under a
\* configured threshold above 0, values above 1.0 acting as 1.0, and every hit
\* scores below it or there is no hit, handle returns the fallback response:
\* empty sources, latency 0, the answer generator not called; the text is the
\* greeting for a greeting query and the no-context text for any other.
LowRelevance(l, t) == \A i \in DOMAIN l.hits : l.hits[i].score < t

C14_LowRelevanceReturnsFallback ==
  (/\ call.op = "orchestrator"
   /\ call.last.kind # "none"
   /\ ~call.last.from_cache
   /\ call.settings.min_relevance > 0
   /\ LowRelevance(call.last, Min(ScoreOne, call.settings.min_relevance)))
  => /\ call.last.kind = "returned"
     /\ ~call.last.generated
     /\ call.last.resp.sources = <<>>
     /\ call.last.resp.latency_ms = 0
     /\ call.last.req.query \in {QNihao, QHi}
          => call.last.resp.answer = <<FALLBACK_GREETING>>
     /\ call.last.req.query = QOther
          => call.last.resp.answer = <<FALLBACK_NO_CONTEXT, <<"q">>>>
     /\ call.last.req.query = QBlank
          => call.last.resp.answer = <<FALLBACK_NO_CONTEXT, DefaultSubject>>

\* A greeting query whose only hits score below the threshold got the greeting.
C14_Witness ==
  /\ call.op = "orchestrator"
  /\ call.last.kind = "returned"
  /\ ~call.last.from_cache
  /\ call.settings.min_relevance = ScoreOne
  /\ call.last.hits # <<>>
  /\ LowRelevance(call.last, ScoreOne)
  /\ call.last.req.query = QNihao
  /\ call.last.resp = [answer |-> <<FALLBACK_GREETING>>, sources |-> <<>>, latency_ms |-> 0]

\* --------------------------------------------------------------- C16
\* C16: embed terminates; it calls the backend for a batch at most the
\* max-attempt count times (a configured count below 1 counts as 1); the only
\* errors it retries are the rate-limit exception and the errors whose message
\* holds 429, rate limit, too many requests, tpm or rpm; and after any other
\* error, or an error on the last allowed attempt, the call has raised and
\* returned no rows, whatever batches it had embedded before.
MaxAttempts == Max(1, call.settings.embedding_max_retries)

TransientErrors ==
  {[rate_limit |-> TRUE, msg |-> <<"quota">>],
   [rate_limit |-> FALSE, msg |-> <<"Error", "429">>],
   [rate_limit |-> FALSE, msg |-> <<"Rate", "limit", "reached">>],
   [rate_limit |-> FALSE, msg |-> <<"TPM", "exceeded">>]}

EmbedRuns == call.op \in {"embed", "embed_raised", "embed_returned"}

C16_EmbedBounded ==
  EmbedRuns =>
    /\ \A b \in DOMAIN call.calls : call.calls[b] <= MaxAttempts
    /\ call.retried \subseteq TransientErrors
    /\ (call.op = "embed" /\ call.attempt > 0) =>
         call.exc \in TransientErrors /\ call.attempt < MaxAttempts
    /\ call.op = "embed_raised" =>
         /\ call.result = NoRows
         /\ call.exc \notin TransientErrors \/ call.calls[Len(call.calls)] = MaxAttempts
    /\ call.op = "embed_returned" =>
         call.result = call.texts /\ Len(call.calls) = Len(call.batches)

C16_EmbedTerminates ==
  /\ []C16_EmbedBounded
  /\ <>(call.op \in {"embed_raised", "embed_returned"})

\* The second batch raised on its last allowed attempt after the first batch
\* had been embedded.
C16_Witness ==
  /\ call.op = "embed_raised"
  /\ Len(call.batches) = 1
  /\ Len(call.calls) = 2
  /\ call.calls[2] = MaxRetries
  /\ call.exc \in TransientErrors
  /\ call.result = NoRows

\* --------------------------------------------------------------- C17
\* The step of request r that validates the next file of its batch, the file
\* it takes and the files of the batch before it.
Validates(r) ==
  /\ upload[r].pc = "file"
  /\ Len(upload'[r].files) = Len(upload[r].files) + 1

Taken(r) == Last(upload'[r].files)

SameBytes(f, g) == f.content = g.content

\* The step turned the file away and touched no lock, status, event or
\* stored document.
TurnedAway(r) ==
  /\ upload'[r].pc \in {"file", "schedule"}
  /\ \E x \in upload'[r].failures : x.filename = Taken(r).filename
  /\ upload'[r].successes = upload[r].successes
  /\ UNCHANGED <<lock, doc_status, history, storage>>

PassesAllowList(f) == f.filename.ext \in ALLOWED_DOC_EXTS
WithinSize(f) == Len(f.content) <= MaxUploadBytes

\* C17 as stated: a file with the bytes of any earlier file of its batch is
\* turned away before any lock, status or storage write, and so is a file
\* outside the allow-list or over the size limit.
C17_BatchDuplicateRejectedFirst ==
  [][\A r \in Uploads :
       Validates(r) =>
         /\ (\E i \in DOMAIN upload[r].files : SameBytes(upload[r].files[i], Taken(r)))
              => TurnedAway(r)
         /\ (~PassesAllowList(Taken(r)) \/ ~WithinSize(Taken(r))) => TurnedAway(r)]_vars

\* C17 (amended): a file with the bytes of an earlier file of its batch that
\* had passed the allow-list and the size limit is turned away before any
\* lock, status or storage write, and so is a file outside the allow-list or
\* over the size limit.
C17_ValidDuplicateRejectedFirst ==
  [][\A r \in Uploads :
       Validates(r) =>
         /\ (\E i \in DOMAIN upload[r].files :
               /\ SameBytes(upload[r].files[i], Taken(r))
               /\ PassesAllowList(upload[r].files[i])
               /\ WithinSize(upload[r].files[i]))
              => TurnedAway(r)
         /\ (~PassesAllowList(Taken(r)) \/ ~WithinSize(Taken(r))) => TurnedAway(r)]_vars

\* The second file of a batch, a copy of the stored first, was turned away as
\* a duplicate within the batch.
C17_Witness ==
  \E r \in Uploads :
    /\ Len(upload[r].files) = 2
    /\ SameBytes(upload[r].files[1], upload[r].files[2])
    /\ PassesAllowList(upload[r].files[2])
    /\ Len(upload[r].successes) = 1
    /\ [filename |-> upload[r].files[2].filename, reason |-> "batch_duplicate"]
         \in upload[r].failures

\* --------------------------------------------------------------- C18
\* C18: no two stored documents with different names hold byte-identical
\* content, whatever the interleaving of the upload requests.
C18_NoTwoStoredCopies ==
  \A n, m \in Names :
    (n # m /\ storage[n].exists /\ storage[m].exists)
      => storage[n].content # storage[m].content

\* --------------------------------------------------------------- C19
\* C19: a failure while a job loads its documents is reported: when the
\* document store failed under a job, every document of the job has a failed
\* event under its job id.
C19_LoadFailureReported ==
  (enabled /\ call.op = "job_raised")
    => \A i \in DOMAIN call.entries :
         HasStatus(history[call.entries[i].job_id], "failed")

\* --------------------------------------------------------------- C20
\* C20: a call of enqueue, set_status or record_event never raises into its
\* caller; with coordination disabled it changes nothing in the store; and
\* when a command of the store fails the failure is logged and the call
\* returns.
SinkCalled == call.op \in {"sink", "enqueue", "set_status", "record_event"} /\ call' # call

C20_SinkNeverRaises ==
  [][SinkCalled =>
       /\ ~call'.raised
       /\ ~enabled => /\ UNCHANGED <<doc_status, history>>
                      /\ call'.redis_queue = call.redis_queue
                      /\ ~call'.logged
       /\ (enabled /\ call'.fault # "none") => call'.logged]_vars

\* Under enabled coordination a set_status whose HSET failed has returned and
\* left the status as it was.
C20_Witness ==
  /\ enabled
  /\ call.op = "set_status"
  /\ call.fault = "hset"
  /\ call.logged
  /\ ~call.raised
  /\ \A n \in Names : doc_status[n] = NoStatus

\* --------------------------------------------------------------- C21
\* A worker between its upsert and the end of the with block.
InVectorize(w) == worker[w].pc \in {"delete_empty", "refs"}

\* A worker blocked on _vectorize_lock.
AwaitsVectorize(w) == worker[w].pc = "upsert"

\* C21: at most one worker is inside the section; a worker enters it only
\* when no other is inside; the lock is held by exactly the worker inside and
\* by nobody after the section raised; and a worker that waits for the section
\* eventually enters it, that is, no worker waits for it for ever.
C21_OneJobInSection ==
  /\ \A v, w \in Workers : (InVectorize(v) /\ InVectorize(w)) => v = w
  /\ \A w \in Workers : InVectorize(w) <=> vectorize_lock = w
  /\ \A w \in Workers : worker[w].pc \in {"failed", "report"} => vectorize_lock # w

C21_SectionExclusiveAndEntered ==
  /\ []C21_OneJobInSection
  /\ [][\A w \in Workers :
          (AwaitsVectorize(w) /\ ~AwaitsVectorize(w)')
            => \A v \in Workers \ {w} : ~InVectorize(v)]_vars
  /\ \A w \in Workers : []<>(~AwaitsVectorize(w))

\* One worker waits for the section while the other, inside it, raised and
\* left it.
C21_Witness ==
  \E v, w \in Workers :
    /\ v # w
    /\ AwaitsVectorize(w)
    /\ worker[v].pc = "failed"
    /\ vectorize_lock = 0

\* --------------------------------------------------------------- C22
\* C22: the text _build_context returns is at most max_chars characters long
\* and is the snippets of a prefix of the chunks, whole and in order, the
\* prefix ending where the next snippet would not fit.
SnippetsOf(chunks, n) == [i \in 1..n |-> Snippet(chunks[i])]

C22_ContextWithinMaxChars ==
  call.op = "built" =>
    /\ Len(call.out) <= call.max_chars
    /\ \E n \in 0..Len(call.chunks) :
         call.out = Join(SnippetsOf(call.chunks, n), <<"\n">>)

\* --------------------------------------------------------------- C23
\* C23: for a size s > 0 and an overlap 0 <= o < s, chunk_text returns no
\* window for an empty text, and else windows of which the first starts at
\* position 0, each next one starts o characters before the end of the one
\* before it, all but the last are s long, and the last ends at the end of
\* the text; each window is the characters between its start and its end.
Contiguous(w) == \A i \in 1..(Len(w) - 1) : w[i + 1] = w[i] + 1

C23_WindowsCoverText ==
  (/\ call.op = "chunked"
   /\ 0 <= call.overlap
   /\ call.overlap < call.chunk_size)
  => LET ws == call.chunks
         n == Len(ws)
     IN IF call.text = <<>> THEN ws = <<>>
        ELSE /\ n >= 1
             /\ \A i \in 1..n : ws[i] # <<>> /\ Contiguous(ws[i])
             /\ ws[1][1] = 1
             /\ \A i \in 1..(n - 1) :
                  /\ Len(ws[i]) = call.chunk_size
                  /\ ws[i + 1][1] = Last(ws[i]) + 1 - call.overlap
             /\ Last(ws[n]) = Len(call.text)
             /\ ws = chunk_text(call.text, call.chunk_size, call.overlap)

\* A text cut into three windows that overlap by one character.
C23_Witness ==
  /\ call.op = "chunked"
  /\ call.overlap = 1
  /\ call.chunk_size = 2
  /\ Len(call.chunks) = 3
  /\ Len(call.text) = 4

\* --------------------------------------------------------------- C24
\* C24: a call of chunk_text made by the loader, with the effective overlap
\* of the configured chunk size and overlap, returns.
C24_LoaderChunkingTerminates ==
  <>(call.op = "chunk_text" => ~call.from_loader)

\* ---------------------------------------------------------------------- C25
\* C25: a streaming query emits exactly one metadata element, carrying the
\* marker, the sources of the gated hits and the best score, before any answer
\* text; every later element is answer text, in the order the backend sent
\* its deltas; on the low-relevance path the only text is the fallback answer.
StreamGate ==
  apply_relevance_threshold(retrieve("none", call.recall, 0, Raises).result,
                            call.min_relevance)

IsText(e) == e.marker = ""
SentSoFar ==
  LET NotEmpty(d) == d # <<>>
      sent == SelectSeq(SubSeq(call.backend, 1, call.pos), NotEmpty)
  IN [i \in DOMAIN sent |-> TextElement(sent[i])]

C25_MetaFirstThenText ==
  (call.op = "query" /\ call.phase \in {"fallback", "deltas", "done"}) =>
    /\ call.emitted # <<>>
    /\ Head(call.emitted) =
         MetaElement(SourcesOf(StreamGate.filtered), StreamGate.filtered = <<>>,
                     StreamGate.best_score)
    /\ \A i \in 2..Len(call.emitted) : IsText(call.emitted[i])
    /\ IF StreamGate.filtered = <<>>
         THEN Tail(call.emitted) =
                IF call.phase = "done" THEN <<TextElement(_fallback_text(call.query))>>
                ELSE <<>>
       ELSE /\ Tail(call.emitted) = SentSoFar
            /\ call.phase = "done" => call.pos = Len(call.backend)

\* a finished stream whose backend sent two deltas after the metadata
C25_Witness ==
  /\ call.op = "query"
  /\ call.phase = "done"
  /\ Len(call.emitted) = 3
  /\ call.emitted[2].text # call.emitted[3].text

\* the fallback answer of a finished low-relevance stream
C25_WitnessFallback ==
  /\ call.op = "query"
  /\ call.phase = "done"
  /\ StreamGate.filtered = <<>>
  /\ Len(call.emitted) = 2

\* ---------------------------------------------------------------------- C26
\* C26: for the same query, index state and settings, the synchronous query
\* and the streaming query report the same sources and send the same prompt,
\* built from the same gated hits, to the same chat backend.
BothAnswered == call.op = "query" /\ call.sync.done /\ call.phase \in {"deltas", "done"}

C26_SyncAndStreamAgree ==
  BothAnswered =>
    /\ call.sync.sources = Head(call.emitted).sources
    /\ call.sync.prompt = call.prompt

\* ---------------------------------------------------------------------- C27
\* C27: against an index whose table has not been created, search returns
\* no hits, stats a zero count and delete zero rows removed, and none of them
\* propagates the missing-table error.
OnMissingTable(op) == call.op = op /\ call.missing

C27_MissingTableReadsAsEmpty ==
  /\ call.op \in {"search", "stats", "delete"} => call.error # UndefinedTable
  /\ OnMissingTable("delete") => (~call.raised /\ call.found = 0)
  /\ OnMissingTable("stats") => (~call.raised /\ call.found = 0)
  /\ (OnMissingTable("search") /\ call.embed_ok) => (~call.raised /\ call.found = 0)

\* a delete of a named document against the missing table
C27_Witness == OnMissingTable("delete") /\ call.names # {} /\ ~index.exists

\* ---------------------------------------------------------------------- C28
\* C28: the sources of a query response or of a streaming metadata record
\* (the gated hits of retrieve, whatever the threshold) are at most the
\* effective top_k many and at most as many as the index holds chunks, with
\* no reranker, with each reranker and when the reranker fails; each snippet
\* is at most 160 characters long.
EffectiveTopK(req) == IF req.top_k # 0 THEN req.top_k ELSE TopK

SourcesUnder(t) == SourcesOf(apply_relevance_threshold(call.out.result, t).filtered)

C28_SourcesWithinTopK ==
  call.op = "retrieved" =>
    \A t \in Thresholds :
      /\ Len(SourcesUnder(t)) <= EffectiveTopK(call.request)
      /\ Len(SourcesUnder(t)) <= Len(call.request.recall)
      /\ \A i \in DOMAIN SourcesUnder(t) : Len(SourcesUnder(t)[i].snippet) <= 160

\* ---------------------------------------------------------------------- C29
\* C29: extraction never raises; a document of an unsupported extension or
\* of malformed content yields no text, so a malformed document of a batch is
\* ingested with zero chunks and the other documents of the batch are not
\* failed because of it.
MalformedDoc(d) == ExtractRaises(d.content, d.name.ext)

C29_MalformedIsEmptyNotFatal ==
  /\ extract_text_from_bytes(Garbage, NameDBin.ext) = <<>>
  /\ (call.op = "batch" /\ call.pc = "done") =>
       /\ ~call.extract_raised
       /\ \A i \in DOMAIN call.docs :
            MalformedDoc(call.docs[i]) =>
              /\ call.st[call.docs[i].name].status = "completed"
              /\ call.st[call.docs[i].name].chunk_count = 0
       /\ ~call.upsert_raised =>
            \A i \in DOMAIN call.docs : call.st[call.docs[i].name].status = "completed"

\* ---------------------------------------------------------------------- C30
\* C30: releasing a handle a second time changes nothing, and releasing a
\* handle never removes the lock another caller has acquired on the key, in
\* particular after the handle's own lock expired.
Releases(c) ==
  /\ call.op = "lock"
  /\ call'.h[c].releases = call.h[c].releases + 1

C30_ReleaseIdempotentOwnerSafe ==
  [][\A c \in Callers :
       Releases(c) =>
         /\ call.h[c].releases >= 1 => call'.lk = call.lk
         /\ call.holder \notin {0, c} => call'.lk = call.lk]_vars

\* ---------------------------------------------------------------------- C31
\* C31: when the remote call of an endpoint reranker (Qianfan or
\* OpenAI-compatible) succeeds, rerank returns min(top_k, candidates sent)
\* hits: the usable entries of the response (a position of a candidate, named
\* for the first time) in response order with their resolved scores, then the
\* candidates not used, in recall order with their own scores; a response
\* without a usable entry is filled in the same way.
RECURSIVE UsableEntries(_, _, _)
UsableEntries(entries, n, seen) ==
  IF entries = <<>> THEN <<>>
  ELSE LET idx == Head(entries).index
       IN IF 0 <= idx /\ idx < n /\ idx \notin seen
            THEN <<Head(entries)>> \o UsableEntries(Tail(entries), n, seen \cup {idx})
          ELSE UsableEntries(Tail(entries), n, seen)

ExpectedRerank(candidates, entries, top_k) ==
  LET usable == Take(UsableEntries(entries, Len(candidates), {}), top_k)
      first == [i \in DOMAIN usable |->
                  [chunk |-> candidates[usable[i].index + 1].chunk,
                   score |-> IF usable[i].score = NoScore
                               THEN candidates[usable[i].index + 1].score
                             ELSE usable[i].score]]
      named == {usable[i].index + 1 : i \in DOMAIN usable}
      rest == SelectSeq([i \in DOMAIN candidates |-> i], LAMBDA i : i \notin named)
  IN Take(first \o [i \in DOMAIN rest |-> candidates[rest[i]]], top_k)

EndpointRerankSucceeded ==
  /\ call.op = "retrieved"
  /\ call.request.strategy \in {"qianfan", "openai"}
  /\ ~call.request.resp.raises
  /\ call.out.hits # <<>>

C31_RerankFillsToTopK ==
  EndpointRerankSucceeded =>
    LET k == EffectiveTopK(call.request)
    IN /\ ~call.out.rerank_raised
       /\ Len(call.out.result) = Min(k, Len(call.out.hits))
       /\ call.out.result = ExpectedRerank(call.out.hits, call.request.resp.entries, k)

\* ---------------------------------------------------------------------- C32
\* C32 as stated: the i-th wait on a batch is min(2^(i-1) * base, max) for
\* the configured base and maximum, starting again at base for each batch, and
\* no wait is made before an error is propagated.
RECURSIVE Pow2(_)
Pow2(n) == IF n = 0 THEN 1 ELSE 2 * Pow2(n - 1)

WaitsAre(base, max) ==
  \A i \in DOMAIN call.waits : call.waits[i] = Min(Pow2(i - 1) * base, max)

\* every failed attempt but a propagated one was followed by one wait
WaitsCounted ==
  /\ call.op = "embed" => Len(call.waits) = call.attempt
  /\ call.op = "embed_raised" => Len(call.waits) = call.attempt - 1

C32_WaitsDoubleFromConfigured ==
  EmbedRuns =>
    /\ WaitsAre(call.settings.embedding_retry_base_delay,
                call.settings.embedding_retry_max_delay)
    /\ WaitsCounted

\* C32, amended: the same with the effective base, the configured base
\* raised to 0.1 s, and the effective maximum, the configured maximum raised to
\* the effective base (an unset or zero value counts as the least one).
C32_WaitsDoubleFromEffective ==
  EmbedRuns =>
    /\ WaitsAre(base_delay(call.settings), max_delay(call.settings))
    /\ \A i \in DOMAIN call.waits : call.waits[i] <= max_delay(call.settings)
    /\ WaitsCounted

\* the second batch waits the base again and is then capped, after the first
\* batch had waited too
C32_Witness ==
  /\ call.op = "embed"
  /\ Len(call.batches) = 1
  /\ call.calls[1] > 1
  /\ call.waits = <<2 * RetryBaseDelay, RetryMaxDelay>>

\* ---------------------------------------------------------------------- C33
\* C33: the gate compares with the configured threshold clamped into
\* [0, 1]; at 0 it passes every hit, at t > 0 exactly the hits scoring at least
\* t, in their order; the best score it reports is the greatest score of the
\* hits before filtering, 0 when there is none.
Clamped(t) == IF t < 0 THEN 0 ELSE IF t > ScoreOne THEN ScoreOne ELSE t

RECURSIVE AtLeast(_, _)
AtLeast(hits, t) ==
  IF hits = <<>> THEN <<>>
  ELSE IF Head(hits).score >= t THEN <<Head(hits)>> \o AtLeast(Tail(hits), t)
  ELSE AtLeast(Tail(hits), t)

RECURSIVE Greatest(_)
Greatest(hits) ==
  IF hits = <<>> THEN 0 ELSE Max(Head(hits).score, Greatest(Tail(hits)))

Gated == call.op = "query" /\ call.phase \in {"fallback", "deltas"}
GateInput == retrieve("none", call.recall, 0, Raises).result

C33_GateClampsAndFilters ==
  Gated =>
    LET t == Clamped(call.min_relevance)
        meta == Head(call.emitted)
    IN /\ meta.best_score = Greatest(GateInput)
       /\ t = 0 => meta.sources = SourcesOf(GateInput)
       /\ t > 0 => meta.sources = SourcesOf(AtLeast(GateInput, t))

\* a threshold above 1.0 that passes the hit scoring 1.0 and drops another
C33_Witness ==
  /\ Gated
  /\ call.min_relevance > ScoreOne
  /\ Len(Head(call.emitted).sources) = 1
  /\ Len(GateInput) = 2

\* ---------------------------------------------------------------------- C34
\* C34: the loader makes no chunk whose text is empty after trimming, and no
\* such chunk is inserted into the vector index.
BatchChunks == load_documents(call.docs)

C34_NoEmptyChunk ==
  call.op = "batch" =>
    /\ \A r \in index.rows : Strip(r.content) # <<>>
    /\ call.pc \in {"report", "done"} /\ ~call.extract_raised =>
         \A i \in DOMAIN BatchChunks : Strip(BatchChunks[i].text) # <<>>

\* ---------------------------------------------------------------------- C35
\* C35: ingesting documents changes the index rows of those documents
\* only: the rows of every other document name are the same before and after.
Upserts == call'.op = "upsert" /\ (index' # index \/ call' # call)

C35_UpsertTouchesOnlyItsDocuments ==
  [][Upserts =>
       \A n \in Names \ call'.names :
         RowsOf(index'.rows, n) = RowsOf(index.rows, n)]_vars

\* ---------------------------------------------------------------------- C36
\* C36: every job id that a request accepted and scheduled gets exactly one
\* terminal report (completed or failed) under that job id.  A job id's
\* reports come from the task its entry was scheduled in, so the statement is
\* checked when that task is over: the id was accepted, its request has
\* scheduled it, and no queued or running task holds its entry any more.
Accepted(j) == HasStatus(history[j], "vectorizing")

HoldsJob(entries, j) == \E i \in DOMAIN entries : entries[i].job_id = j

NotYetScheduled(j) ==
  \E r \in Uploads : upload[r].pc \notin {"idle", "done"} /\ HoldsJob(upload[r].successes, j)

InTask(j) ==
  \/ \E i \in DOMAIN queue : HoldsJob(queue[i], j)
  \/ \E w \in Workers : HoldsJob(worker[w].entries, j)

TerminalReports(j) ==
  Cardinality({i \in DOMAIN history[j] : history[j][i].status \in {"completed", "failed"}})

C36_OneTerminalReportPerJob ==
  \A j \in DOMAIN history :
    (Accepted(j) /\ ~NotYetScheduled(j) /\ ~InTask(j)) => TerminalReports(j) = 1

\* --------------------------------------------------------------- C37
\* The step by which the task of worker w leaves its try block with an
\* exception.
LeavesWithException(w) ==
  /\ worker[w].pc \in {"upsert", "delete_empty", "refs"}
  /\ worker'[w].pc = "failed"

\* What the batch of w had in the index and the store when w entered its with
\* block.
BeforeJob(w) ==
  IF worker[w].pc = "upsert"
    THEN BatchState(index, storage, worker[w].requested_docs)
    ELSE worker[w].before

\* C37: when a job leaves its try block with an exception, and so reports
\* failed for its batch, the index rows and the recorded vector references of
\* the documents of the batch are what they were when the job entered the block.
C37_FailedJobChangesNothing ==
  [][\A w \in Workers :
       LeavesWithException(w) =>
         BatchState(index', storage', worker[w].requested_docs) = BeforeJob(w)]_vars

\* --------------------------------------------------------------- C38
\* No request is being handled and no job is queued or running.
AllFinished ==
  /\ queue = <<>>
  /\ \A w \in Workers : worker[w].pc = "idle"
  /\ \A r \in Uploads : upload[r].pc \in {"idle", "done"}
  /\ deleter.pc = "idle"

\* delete_doc has answered 404: the request is spent and nothing is left to do.
AnswersNotFound ==
  /\ budget'.delete < budget.delete
  /\ deleter'.pc = "idle"

\* delete_doc has removed the stored document and goes on to the vectors.
RemovesStored ==
  /\ budget'.delete < budget.delete
  /\ deleter'.pc = "vectors"

\* The first half, for the jobs that ran before the delete began: they do not
\* interleave with it.
NoRowsOfDeleted ==
  \A n \in Names :
    (AllFinished /\ ~storage[n].exists) => RowsOf(index.rows, n) = {}

\* C38: once a delete of D has returned and every job has finished, a
\* document D that is no longer stored has no row in the index (the store
\* loses a document only through delete_doc, and rows of D are written only
\* from a stored D); a delete of a name that is not stored is answered
\* not-found and changes neither the index nor the store, and a delete of a
\* stored name is never answered so.
C38_DeletedHasNoRows ==
  /\ []NoRowsOfDeleted
  /\ [][/\ AnswersNotFound =>
            (index' = index /\ storage' = storage /\ \E n \in Names : ~storage[n].exists)
        /\ RemovesStored =>
            (storage[deleter'.name].exists /\ ~storage'[deleter'.name].exists)]_vars

\* --------------------------------------------------------------- C39
\* A call of handle that began after every earlier answer was returned.
AnswersWhole == call'.left < call.left /\ call'.pending = call.pending

\* A call of handle returns or raises.
Answers == AnswersWhole \/ (call.pending # NoLast /\ call'.pending = NoLast)

CacheHit ==
  LET key == cache_key(call'.last.req)
  IN /\ call'.last.kind = "returned"
     /\ call'.last.from_cache
     /\ call'.last.resp = call.cache[key]
     /\ call'.last.hits = <<>>
     /\ ~call'.last.generated
     /\ call'.cache = call.cache

CacheMiss ==
  LET key == cache_key(call'.last.req)
  IN /\ ~call'.last.from_cache
     /\ call'.cache = IF call'.last.kind = "returned"
                        THEN (key :> call'.last.resp) @@ call.cache
                      ELSE call.cache

\* C39: with caching enabled, a query whose key has no stored response is
\* answered with cache-hit false and its response, a fallback too, is stored
\* unless the query raises; a query that comes after a response was stored for
\* its key gets that response with cache-hit true, without retrieval or
\* generation, whatever the index returns by then; the response stored for a
\* key is the first one and stays; with caching disabled nothing is stored
\* and cache-hit is false.
C39_FirstAnswerIsCached ==
  [][/\ (Answers /\ ~call.settings.cache_enabled) =>
          (~call'.last.from_cache /\ call'.cache = call.cache)
     /\ (AnswersWhole /\ call.settings.cache_enabled) =>
          IF cache_key(call'.last.req) \in DOMAIN call.cache THEN CacheHit ELSE CacheMiss
     /\ ~Answers => call'.cache = call.cache
     /\ \A key \in DOMAIN call.cache :
          key \in DOMAIN call'.cache /\ call'.cache[key] = call.cache[key]]_vars

\* --------------------------------------------------------------- C40
\* The jobs of the requests that were rejected as busy.
RejectedJobs == {j \in 1..Len(history) : HasStatus(history[j], "busy")}

\* C40: the status record of a document never shows the status busy nor the
\* job id of a request that was rejected as busy: it stays the record of the
\* lock holder's job.
C40_BusyLeavesStatusRecord ==
  enabled =>
    \A n \in Names :
      /\ doc_status[n].status # "busy"
      /\ doc_status[n].job_id \notin RejectedJobs

====
